---------------------------- MODULE Spec2Model ----------------------------
(***************************************************************************)
(* Exscriptd.OrderDB: the order / host / variable store.                   *)
(*                                                                         *)
(* Storage is three tables (functions from primary key to row).  NULL and  *)
(* Python's None are 0 for integers and timestamps.  Primary keys are      *)
(* handed out as max(existing key) + 1, which is what the engine named in  *)
(* the source (sqlite, INTEGER PRIMARY KEY) does.                          *)
(***************************************************************************)
EXTENDS Integers, Sequences, FiniteSets, TLC

VARIABLES
    tbl_order,      \* exscriptd_order:    id -> [service, status, closed, created_by]
    tbl_host,       \* exscriptd_host:     id -> [order_id, address, name]
    tbl_variable,   \* exscriptd_variable: id -> [host_id, name, value]
    mem,            \* the callers' Order objects (with their Host children)
    clock,          \* datetime.now()
    calls,          \* number of public calls made so far
    ret,            \* what the last public call did and returned
    pc,             \* per thread: position in the call it is making
    rlock,          \* self._sync_lock: owner thread (0 = free) and depth
    writer          \* threads that are between two storage writes of a call

vars == << tbl_order, tbl_host, tbl_variable, mem, clock, calls, ret, pc, rlock, writer >>

(***************************************************************************)
(* Bounds and value domains                                                *)
(***************************************************************************)
MaxCalls == 3            \* steps per behaviour of Spec
MaxTxCalls == 3          \* calls per behaviour of SpecTx
MaxOrders == 3           \* orders stored in SpecQuery
MaxConcCalls == 3        \* calls started per behaviour of SpecConc
Null == 0                \* None / NULL
Names == {"n1", "n2"}
VarOrder == << "k1", "k2" >>      \* iteration order of host.get_all()

MaxOf(S) == IF S = {} THEN 0 ELSE CHOOSE x \in S : \A y \in S : y <= x

\* result.last_inserted_ids()[0]
last_inserted_id(tbl) == MaxOf(DOMAIN tbl) + 1

Put(tbl, id, row) == [i \in DOMAIN tbl \cup {id} |-> IF i = id THEN row ELSE tbl[i]]

EmptyTable == [i \in {} |-> 0]

(***************************************************************************)
(* QueryBuilder: get_orders' WHERE clause                                  *)
(***************************************************************************)
\* A keyword argument: absent, a scalar (vals has length 1) or a list.
to_list(arg) == arg.vals

NoCond == [none |-> TRUE, val |-> FALSE]
Lit(b) == [none |-> FALSE, val |-> b]

\* sa.or_ / sa.and_ : a None operand is dropped from the clause list
sa_or(a, b) == IF a.none THEN b ELSE IF b.none THEN a ELSE Lit(a.val \/ b.val)
sa_and(a, b) == IF a.none THEN b ELSE IF b.none THEN a ELSE Lit(a.val /\ b.val)

RECURSIVE FieldCond(_, _, _)
\* for value in to_list(kwargs.get(field)): cond = sa.or_(cond, col == value)
FieldCond(vals, i, colval) ==
    IF i = 0 THEN NoCond
    ELSE sa_or(FieldCond(vals, i - 1, colval), Lit(colval = vals[i]))

FieldWhere(where, arg, colval) ==
    IF arg.kind = "absent" THEN where
    ELSE sa_and(where, FieldCond(to_list(arg), Len(to_list(arg)), colval))

\* the WHERE clause of get_orders evaluated on one order row
Where(kwargs, id, row) ==
    LET w1 == FieldWhere(NoCond, kwargs.id, id)
        w2 == FieldWhere(w1, kwargs.service, row.service)
        w3 == FieldWhere(w2, kwargs.status, row.status)
    IN  w3.none \/ w3.val

Matching(o, kwargs) == {id \in DOMAIN o : Where(kwargs, id, o[id])}

(***************************************************************************)
(* Sequences of ids                                                        *)
(***************************************************************************)
RECURSIVE DescSeq(_)
DescSeq(S) == IF S = {} THEN << >> ELSE << MaxOf(S) >> \o DescSeq(S \ {MaxOf(S)})

RECURSIVE AscSeq(_)
AscSeq(S) == IF S = {} THEN << >>
             ELSE LET m == CHOOSE x \in S : \A y \in S : x <= y
                  IN  << m >> \o AscSeq(S \ {m})

Range(s) == {s[i] : i \in 1..Len(s)}

\* every order in which the engine may return the rows of a SELECT that has
\* no ORDER BY
Perms(S) == {p \in [1..Cardinality(S) -> S] : Range(p) = S}

\* LIMIT / OFFSET; the compiler emits the clause only when limit or offset is
\* set (non-zero)
Slice(s, offset, limit) ==
    IF offset = 0 /\ limit = 0 THEN s
    ELSE LET lo == offset + 1
             hi == IF offset + limit < Len(s) THEN offset + limit ELSE Len(s)
         IN  IF lo > hi THEN << >> ELSE SubSeq(s, lo, hi)

(***************************************************************************)
(* The flattened result of order OUTER JOIN host OUTER JOIN variable,      *)
(* ORDER BY order.id DESC.  Within an order the rows come host by host and *)
(* within a host variable by variable, in insertion (primary key) order.   *)
(***************************************************************************)
JoinRow(db, oid, hid, vid) ==
    [ o_id       |-> oid,
      service    |-> db.o[oid].service,
      status     |-> db.o[oid].status,
      closed     |-> db.o[oid].closed,
      created_by |-> db.o[oid].created_by,
      has_h      |-> TRUE,
      h_id       |-> hid,
      address    |-> IF hid = Null THEN "" ELSE db.h[hid].address,
      name       |-> IF hid = Null THEN "" ELSE db.h[hid].name,
      v_host_id  |-> IF vid = Null THEN Null ELSE db.v[vid].host_id,
      v_name     |-> IF vid = Null THEN "" ELSE db.v[vid].name,
      v_value    |-> IF vid = Null THEN Null ELSE db.v[vid].value ]

\* a row of the order table alone (recursive = False): no host columns
OrderOnlyRow(db, oid) == [JoinRow(db, oid, Null, Null) EXCEPT !.has_h = FALSE]

HostRows(db, oid, hid) ==
    LET vs == AscSeq({v \in DOMAIN db.v : db.v[v].host_id = hid})
    IN  IF vs = << >> THEN << JoinRow(db, oid, hid, Null) >>
        ELSE [i \in 1..Len(vs) |-> JoinRow(db, oid, hid, vs[i])]

RECURSIVE HostsRows(_, _, _, _)
HostsRows(db, oid, hs, i) ==
    IF i > Len(hs) THEN << >>
    ELSE HostRows(db, oid, hs[i]) \o HostsRows(db, oid, hs, i + 1)

OrderRows(db, oid) ==
    LET hs == AscSeq({h \in DOMAIN db.h : db.h[h].order_id = oid})
    IN  IF hs = << >> THEN << JoinRow(db, oid, Null, Null) >>
        ELSE HostsRows(db, oid, hs, 1)

RECURSIVE JoinRows(_, _, _)
JoinRows(db, ids, i) ==
    IF i > Len(ids) THEN << >>
    ELSE OrderRows(db, ids[i]) \o JoinRows(db, ids, i + 1)

(***************************************************************************)
(* RowGrouper: OrderDB.__get_orders_from_query                             *)
(***************************************************************************)
__get_order_from_row(row) ==
    [ id         |-> row.o_id,
      service    |-> row.service,
      status     |-> row.status,
      closed     |-> row.closed,
      created_by |-> row.created_by,
      hosts      |-> << >> ]

\* faulty variant: name and address are read from each other's column
get_host_swapped(row) ==
    [ address |-> row.name, name |-> row.address, vars |-> [k \in {} |-> 0] ]

\* Host(row[name]); host.set_address(row[address])
__get_host_from_row(row) ==
    [ address |-> row.address, name |-> row.name, vars |-> [k \in {} |-> 0] ]

\* order.add_host(host) on the order appended last
add_host(order_list, host) ==
    [order_list EXCEPT ![Len(order_list)].hosts = Append(@, host)]

\* host.set(key, value) on the host added last to the order appended last
host_set(order_list, key, value) ==
    LET n == Len(order_list)
        m == Len(order_list[n].hosts)
        old == order_list[n].hosts[m].vars
    IN  [order_list EXCEPT ![n].hosts[m].vars =
            [k \in DOMAIN old \cup {key} |-> IF k = key THEN value ELSE old[k]]]

RECURSIVE VarLoop(_, _, _, _)
\* while row and row[tbl_v.c.host_id]: ... (lines 415-421)
VarLoop(rows, i, order_list, last_host_id) ==
    IF i > Len(rows) \/ rows[i].v_host_id = Null THEN [i |-> i, list |-> order_list]
    ELSE LET l2 == host_set(order_list, rows[i].v_name, rows[i].v_value)
         IN  IF i + 1 > Len(rows) \/ last_host_id # rows[i + 1].h_id
             THEN [i |-> i + 1, list |-> l2]
             ELSE VarLoop(rows, i + 1, l2, last_host_id)

RECURSIVE HostLoop(_, _, _, _)
\* while row and row[tbl_h.c.id]: ... (lines 402-421)
HostLoop(rows, i, order_list, last_order_id) ==
    IF i > Len(rows) \/ rows[i].h_id = Null THEN [i |-> i, list |-> order_list]
    ELSE IF last_order_id # rows[i].o_id THEN [i |-> i, list |-> order_list]
    ELSE LET l2 == add_host(order_list, __get_host_from_row(rows[i]))
         IN  IF rows[i].v_host_id = Null
             THEN HostLoop(rows, i + 1, l2, last_order_id)
             ELSE LET r == VarLoop(rows, i, l2, rows[i].h_id)
                  IN  HostLoop(rows, r.i, r.list, last_order_id)

RECURSIVE OrderLoop(_, _, _)
\* while row is not None: ... (lines 389-424)
OrderLoop(rows, i, order_list) ==
    IF i > Len(rows) THEN order_list
    ELSE IF rows[i].o_id = Null THEN order_list
    ELSE LET l2 == Append(order_list, __get_order_from_row(rows[i]))
         IN  IF ~rows[i].has_h \/ rows[i].h_id = Null
             THEN OrderLoop(rows, i + 1, l2)
             ELSE LET r == HostLoop(rows, i, l2, rows[i].o_id)
                  IN  IF r.i > Len(rows) THEN r.list
                      ELSE OrderLoop(rows, r.i, r.list)

__get_orders_from_query(rows) ==
    IF rows = << >> THEN << >> ELSE OrderLoop(rows, 1, << >>)

(***************************************************************************)
(* OrderDB.get_orders / get_order                                          *)
(***************************************************************************)
\* The subselect of order ids: WHERE, OFFSET and LIMIT, and no ORDER BY, so
\* the engine returns the matching ids in an order of its choosing (engine).
order_select(engine, offset, limit) == Range(Slice(engine, offset, limit))

\* the SELECT that get_orders hands to the grouper
Select(db, engine, offset, limit, recursive, kwargs) ==
    IF recursive
    THEN JoinRows(db, DescSeq(order_select(engine, offset, limit)), 1)
    ELSE LET ids == Slice(DescSeq(Matching(db.o, kwargs)), offset, limit)
         IN  [i \in 1..Len(ids) |-> OrderOnlyRow(db, ids[i])]

\* engine: the order in which the engine enumerates the matching order rows
get_orders(db, engine, offset, limit, recursive, kwargs) ==
    __get_orders_from_query(Select(db, engine, offset, limit, recursive, kwargs))

Absent == [kind |-> "absent", vals |-> << >>]
Scalar(x) == [kind |-> "scalar", vals |-> << x >>]
List(s) == [kind |-> "list", vals |-> s]
NoKwargs == [id |-> Absent, service |-> Absent, status |-> Absent]

\* result = self.get_orders(0, 2, **kwargs), then the three cases
get_order(db, engine, kwargs) ==
    LET result == get_orders(db, engine, 0, 2, TRUE, kwargs)
    IN  IF Len(result) = 0 THEN [exc |-> "none", found |-> FALSE, list |-> << >>]
        ELSE IF Len(result) > 1
             THEN [exc |-> "TooManyResults", found |-> FALSE, list |-> << >>]
             ELSE [exc |-> "none", found |-> TRUE, list |-> << result[1] >>]

\* some order of enumeration (used where the result does not depend on it)
AnyEngine(db, kwargs) == AscSeq(Matching(db.o, kwargs))

(***************************************************************************)
(* The write path.  A call threads a context through its statements:       *)
(*   o, h, v   the three tables as the call's connection sees them         *)
(*   mem       the callers' objects (order.id and host.dirty are written)  *)
(*   n, fail   statements executed so far; the fail-th execute() raises    *)
(*   exc       the exception that is propagating ("none": none)            *)
(*   orig      the exception that was raised first                         *)
(*   fb        how often __save_order fell back to add_order               *)
(*   depth     nesting of begin() on the thread's contextual connection    *)
(*   snap      the tables as they were at the outermost begin()            *)
(***************************************************************************)
Db(st) == [o |-> st.o, h |-> st.h, v |-> st.v]

\* raise e (orig keeps the exception that was raised first in the call)
Raise(st, e) == [st EXCEPT !.exc = e, !.orig = IF @ = "none" THEN e ELSE @]

\* <statement>.execute(): the engine may fail
Execute(st) ==
    IF st.n + 1 = st.fail THEN Raise([st EXCEPT !.n = @ + 1], "EngineError")
    ELSE [st EXCEPT !.n = @ + 1]

\* transaction = self.engine.contextual_connect().begin()
begin(st) ==
    IF st.depth = 0 THEN [st EXCEPT !.depth = 1, !.snap = Db(st)]
    ELSE [st EXCEPT !.depth = @ + 1]

\* faulty variant: every commit, a nested one too, makes the work so far durable
commit_durable(st) == [st EXCEPT !.depth = @ - 1, !.snap = Db(st)]

\* transaction.commit(): only the outermost commit makes the work durable
commit(st) == [st EXCEPT !.depth = @ - 1]

\* faulty variant: the except clause re-raises without rolling back
rollback_keeps(st) == [st EXCEPT !.depth = @ - 1]

\* transaction.rollback(): undoes everything since the outermost begin()
rollback(st) ==
    [st EXCEPT !.depth = @ - 1, !.o = st.snap.o, !.h = st.snap.h, !.v = st.snap.v]

\* faulty variant: a host that is None is not rejected
IsNone_never(host) == FALSE

IsNone(host) == host.none

\* faulty variant: the dirty check is missing
SkipHost_never(host) == FALSE

\* if not host.is_dirty(): return
SkipHost(host) == ~host.dirty

\* faulty variant: the lookup result is ignored: every save inserts
NotFound_always(theorder) == TRUE

\* if not theorder: return self.add_order(order, recursive)
NotFound(theorder) == ~theorder.found

\* OrderDB.__add_variable
__add_variable(st, host_id, key, value) ==
    IF host_id = Null THEN Raise(st, "AttributeError")
    ELSE LET s1 == Execute(st)
         IN  IF s1.exc # "none" THEN s1
             ELSE [s1 EXCEPT !.v = Put(@, last_inserted_id(@),
                        [host_id |-> host_id, name |-> key, value |-> value])]

\* faulty variant: the host's stored variables are replaced by the one written
save_variable_replace(st, host_id, key, value) ==
    LET kept == [i \in {j \in DOMAIN st.v : st.v[j].host_id # host_id} |-> st.v[i]]
    IN  [st EXCEPT !.n = @ + 2,
                   !.v = Put(kept, last_inserted_id(st.v),
                             [host_id |-> host_id, name |-> key, value |-> value])]

\* OrderDB.__save_variable
__save_variable(st, host_id, key, value) ==
    IF host_id = Null THEN Raise(st, "AttributeError")
    ELSE LET s1 == Execute(st)        \* table.select(where).execute()
             thevar == {i \in DOMAIN s1.v :
                           s1.v[i].host_id = host_id /\ s1.v[i].name = key}
             fields == [host_id |-> host_id, name |-> key, value |-> value]
         IN  IF s1.exc # "none" THEN s1
             ELSE LET s2 == Execute(s1)   \* insert / update
                  IN  IF s2.exc # "none" THEN s2
                      ELSE IF thevar = {}
                           THEN [s2 EXCEPT !.v = Put(@, last_inserted_id(@), fields)]
                           ELSE [s2 EXCEPT !.v =
                                    [i \in DOMAIN @ |-> IF i \in thevar THEN fields ELSE @[i]]]

RECURSIVE add_variables(_, _, _, _)
\* for key, value in host.get_all().iteritems(): self.__add_variable(...)
add_variables(st, host_id, hvars, i) ==
    IF st.exc # "none" \/ i > Len(VarOrder) THEN st
    ELSE IF VarOrder[i] \notin DOMAIN hvars THEN add_variables(st, host_id, hvars, i + 1)
    ELSE add_variables(__add_variable(st, host_id, VarOrder[i], hvars[VarOrder[i]]),
                       host_id, hvars, i + 1)

RECURSIVE save_variables(_, _, _, _)
\* for key, value in host.get_all().iteritems(): self.__save_variable(...)
save_variables(st, host_id, hvars, i) ==
    IF st.exc # "none" \/ i > Len(VarOrder) THEN st
    ELSE IF VarOrder[i] \notin DOMAIN hvars THEN save_variables(st, host_id, hvars, i + 1)
    ELSE save_variables(__save_variable(st, host_id, VarOrder[i], hvars[VarOrder[i]]),
                        host_id, hvars, i + 1)

\* host.untouch() on host hi of object oi
untouch(st, oi, hi) == [st EXCEPT !.mem[oi].hosts[hi].dirty = FALSE]

\* OrderDB.__add_host, for host hi of object oi
__add_host(st, order_id, oi, hi) ==
    LET host == st.mem[oi].hosts[hi]
    IN  IF order_id = Null THEN Raise(st, "AttributeError")
        ELSE IF IsNone(host) THEN Raise(st, "AttributeError")
        ELSE IF SkipHost(host) THEN st
        ELSE LET s1 == Execute(st)
                 host_id == last_inserted_id(s1.h)
                 s2 == [s1 EXCEPT !.h = Put(@, host_id,
                           [order_id |-> order_id, name |-> host.name,
                            address |-> host.address])]
                 s3 == add_variables(s2, host_id, host.vars, 1)
             IN  IF s1.exc # "none" THEN s1
                 ELSE IF s3.exc # "none" THEN s3
                 ELSE untouch(s3, oi, hi)

\* OrderDB.__save_host, for host hi of object oi
__save_host(st, order_id, oi, hi) ==
    LET host == st.mem[oi].hosts[hi]
    IN  IF order_id = Null THEN Raise(st, "AttributeError")
        ELSE IF IsNone(host) THEN Raise(st, "AttributeError")
        ELSE IF SkipHost(host) THEN st
        ELSE LET s1 == Execute(st)      \* table.select(where).execute()
                 thehost == {i \in DOMAIN s1.h :
                                s1.h[i].order_id = order_id
                                /\ s1.h[i].address = host.address}
                 fields == [order_id |-> order_id, name |-> host.name,
                            address |-> host.address]
                 s2 == Execute(s1)      \* insert / update
                 host_id == IF thehost = {} THEN last_inserted_id(s2.h)
                            ELSE CHOOSE i \in thehost : \A j \in thehost : i <= j
                 s3 == IF thehost = {}
                       THEN [s2 EXCEPT !.h = Put(@, host_id, fields)]
                       ELSE [s2 EXCEPT !.h =
                               [i \in DOMAIN @ |-> IF i \in thehost THEN fields ELSE @[i]]]
                 s4 == save_variables(s3, host_id, host.vars, 1)
             IN  IF s1.exc # "none" THEN s1
                 ELSE IF s2.exc # "none" THEN s2
                 ELSE IF s4.exc # "none" THEN s4
                 ELSE untouch(s4, oi, hi)

RECURSIVE add_hosts(_, _, _)
\* for host in order.get_hosts(): self.__add_host(order.id, host)
add_hosts(st, oi, hi) ==
    IF st.exc # "none" \/ hi > Len(st.mem[oi].hosts) THEN st
    ELSE add_hosts(__add_host(st, st.mem[oi].id, oi, hi), oi, hi + 1)

RECURSIVE save_hosts(_, _, _)
\* for host in order.get_hosts(): self.__save_host(order.get_id(), host)
save_hosts(st, oi, hi) ==
    IF st.exc # "none" \/ hi > Len(st.mem[oi].hosts) THEN st
    ELSE save_hosts(__save_host(st, st.mem[oi].id, oi, hi), oi, hi + 1)

\* faulty variant: the status column is not written from the object
OrderFields_stale(order) ==
    [ service    |-> order.service,
      status     |-> "new",
      closed     |-> order.closed,
      created_by |-> order.created_by ]

OrderFields(order) ==
    [ service    |-> order.service,
      status     |-> order.status,
      closed     |-> order.closed,
      created_by |-> order.created_by ]

\* OrderDB.__add_order; oi = 0 stands for order = None
__add_order(st, oi, recursive) ==
    IF oi = 0 THEN Raise(st, "AttributeError")
    ELSE LET s1 == Execute(st)
             id == last_inserted_id(s1.o)
             s2 == [s1 EXCEPT !.o = Put(@, id, OrderFields(st.mem[oi])),
                              !.mem[oi].id = id]
         IN  IF s1.exc # "none" THEN s1
             ELSE IF ~recursive THEN s2
             ELSE add_hosts(s2, oi, 1)

RECURSIVE add_order_loop(_, _, _, _)
\* for order in to_list(orders): self.__add_order(order, recursive)
add_order_loop(st, list, i, recursive) ==
    IF st.exc # "none" \/ i > Len(list) THEN st
    ELSE add_order_loop(__add_order(st, list[i], recursive), list, i + 1, recursive)

\* OrderDB.add_order; orders = [isNone, list]
add_order(st, orders, recursive) ==
    IF orders.isNone THEN Raise(st, "AttributeError")
    ELSE LET s1 == begin(st)
             s2 == add_order_loop(s1, orders.list, 1, recursive)
         IN  IF s2.exc = "none" THEN commit(s2) ELSE rollback(s2)

\* OrderDB.__save_order; oi = 0 stands for order = None
__save_order(st, oi, recursive) ==
    IF oi = 0 THEN Raise(st, "AttributeError")
    ELSE LET order == st.mem[oi]
             lookup == order.id # Null          \* if order.id:
             s1 == IF lookup THEN Execute(st) ELSE st
             kw == [NoKwargs EXCEPT !.id = Scalar(order.id)]
             theorder == IF lookup THEN get_order(Db(s1), AnyEngine(Db(s1), kw), kw)
                         ELSE [exc |-> "none", found |-> FALSE, list |-> << >>]
         IN  IF s1.exc # "none" THEN s1
             ELSE IF theorder.exc # "none" THEN Raise(s1, theorder.exc)
             ELSE IF NotFound(theorder)
                  THEN add_order([s1 EXCEPT !.fb = @ + 1],
                                 [isNone |-> FALSE, list |-> << oi >>], recursive)
             ELSE LET s2 == Execute(s1)   \* table.update(id == order.get_id())
                      s3 == [s2 EXCEPT !.o[order.id] = OrderFields(order)]
                  IN  IF s2.exc # "none" THEN s2
                      ELSE IF ~recursive THEN s3
                      ELSE save_hosts(s3, oi, 1)

RECURSIVE save_order_loop(_, _, _, _)
\* for order in to_list(orders): self.__save_order(order, recursive)
save_order_loop(st, list, i, recursive) ==
    IF st.exc # "none" \/ i > Len(list) THEN st
    ELSE save_order_loop(__save_order(st, list[i], recursive), list, i + 1, recursive)

\* OrderDB.save_order
save_order(st, orders, recursive) ==
    IF orders.isNone THEN Raise(st, "AttributeError")
    ELSE LET s1 == begin(st)
             s2 == save_order_loop(s1, orders.list, 1, recursive)
         IN  IF s2.exc = "none" THEN commit(s2) ELSE rollback(s2)

\* faulty variant: the UPDATE has no WHERE clause
close_all_orders(o, now) == [i \in DOMAIN o |-> [o[i] EXCEPT !.closed = now]]

\* faulty variant: closing an order also writes its status
close_and_mark(o, now) ==
    [i \in DOMAIN o |-> IF o[i].closed = Null
                        THEN [o[i] EXCEPT !.closed = now, !.status = "closed"]
                        ELSE o[i]]

\* OrderDB.close_open_orders: UPDATE order SET closed = now WHERE closed IS NULL
close_open_orders(o, now) ==
    [i \in DOMAIN o |-> IF o[i].closed = Null THEN [o[i] EXCEPT !.closed = now] ELSE o[i]]

\* OrderDB.clear_database: DELETE FROM order; hosts and variables go with
\* their order (ON DELETE CASCADE)
clear_database(db) == [o |-> EmptyTable, h |-> EmptyTable, v |-> EmptyTable]

(***************************************************************************)
(* The callers' objects                                                    *)
(***************************************************************************)
Objs == {1, 2}            \* the Order objects the callers hold

NoVars == [k \in {} |-> 0]
OneVar == [k \in {"k1"} |-> 1]
TwoVars == [k \in {"k1", "k2"} |-> IF k = "k1" THEN 1 ELSE 2]
\* Host(name); set_address(); set(): a host the caller has built
NewHost(address, name, hvars) ==
    [address |-> address, name |-> name, vars |-> hvars, dirty |-> TRUE, none |-> FALSE]

\* the orders the callers start with: hosts with 0, 1 and 2 variables, orders
\* with 0, 1 and 2 hosts
InitHostLists1 ==
    { << >>,
      << NewHost("a1", "n1", OneVar) >>,
      << NewHost("a1", "n1", TwoVars), NewHost("a2", "n2", NoVars) >> }

InitHostLists2 == { << >>, << NewHost("a1", "n2", OneVar) >> }

\* Order(service): no id, status "new", not closed
NewOrder(service, hosts) ==
    [id |-> Null, service |-> service, status |-> "new", closed |-> Null,
     created_by |-> "u1", hosts |-> hosts]

\* what a loaded order is compared on
Proj(order) ==
    [ id         |-> order.id,
      service    |-> order.service,
      status     |-> order.status,
      closed     |-> order.closed,
      created_by |-> order.created_by,
      hosts      |-> [i \in 1..Len(order.hosts) |->
                        [address |-> order.hosts[i].address,
                         name    |-> order.hosts[i].name,
                         vars    |-> order.hosts[i].vars]] ]

(***************************************************************************)
(* Spec: one caller, whole calls                                           *)
(***************************************************************************)
NoRet ==
    [op |-> "none", args |-> << >>, recursive |-> TRUE, exc |-> "none",
     orig |-> "none", n |-> 0, fb |-> 0, alldirty |-> FALSE, reassigned |-> {},
     afteradd |-> FALSE, value |-> << >>]

Ctx(fail) ==
    [o |-> tbl_order, h |-> tbl_host, v |-> tbl_variable, mem |-> mem,
     n |-> 0, fail |-> fail, exc |-> "none", orig |-> "none", fb |-> 0,
     depth |-> 0, snap |-> [o |-> tbl_order, h |-> tbl_host, v |-> tbl_variable]]

\* the arguments a caller passes as `orders`
OrderArgs ==
    {[isNone |-> FALSE, list |-> l] : l \in {<< 1 >>, << 2 >>, << 1, 2 >>}}

AllDirty(list) ==
    \A i \in 1..Len(list) : list[i] # 0 =>
        \A j \in 1..Len(mem[list[i]].hosts) : mem[list[i]].hosts[j].dirty

Returned(op, orders, recursive, st) ==
    [op |-> op, args |-> orders.list, recursive |-> recursive, exc |-> st.exc,
     orig |-> st.orig, n |-> st.n, fb |-> st.fb,
     alldirty |-> AllDirty(orders.list),
     reassigned |-> {oi \in Objs : mem[oi].id # Null /\ st.mem[oi].id # mem[oi].id},
     afteradd |-> FALSE, value |-> << >>]

Commit(st) ==
    /\ tbl_order' = st.o
    /\ tbl_host' = st.h
    /\ tbl_variable' = st.v
    /\ mem' = st.mem

Idle == UNCHANGED << pc, rlock, writer >>

\* how many statements the call executes when none fails
Steps(st) == st.n

\* where the engine may fail in a call: nowhere, or at any one statement
Failures(failing, n) == IF failing THEN 0..n ELSE {0}

AddOrderCall(bound, failing) ==
    /\ calls < bound
    /\ \E orders \in OrderArgs, recursive \in BOOLEAN :
         \E fail \in Failures(failing, Steps(add_order(Ctx(0), orders, recursive))) :
            LET st == add_order(Ctx(fail), orders, recursive)
            IN  /\ Commit(st)
                /\ ret' = Returned("add_order", orders, recursive, st)
    /\ calls' = calls + 1
    /\ UNCHANGED clock
    /\ Idle

SaveOrderCall(bound, failing) ==
    /\ calls < bound
    /\ \E orders \in OrderArgs, recursive \in BOOLEAN :
         \E fail \in Failures(failing, Steps(save_order(Ctx(0), orders, recursive))) :
            LET st == save_order(Ctx(fail), orders, recursive)
            IN  /\ Commit(st)
                /\ ret' = Returned("save_order", orders, recursive, st)
    /\ calls' = calls + 1
    /\ UNCHANGED clock
    /\ Idle

AddOrder == AddOrderCall(MaxCalls, FALSE)

SaveOrder == SaveOrderCall(MaxCalls, FALSE)

CloseOpenOrders ==
    /\ calls < MaxCalls
    /\ tbl_order' = close_open_orders(tbl_order, clock)
    /\ clock' = clock + 1
    /\ ret' = [NoRet EXCEPT !.op = "close_open_orders"]
    /\ calls' = calls + 1
    /\ UNCHANGED << tbl_host, tbl_variable, mem >>
    /\ Idle

ClearDatabaseCall(bound) ==
    /\ calls < bound
    /\ LET db == clear_database([o |-> tbl_order, h |-> tbl_host, v |-> tbl_variable])
       IN  /\ tbl_order' = db.o
           /\ tbl_host' = db.h
           /\ tbl_variable' = db.v
    /\ ret' = [NoRet EXCEPT !.op = "clear_database"]
    /\ calls' = calls + 1
    /\ UNCHANGED << mem, clock >>
    /\ Idle

\* the last call was add_order(order), it did not raise, and order is object oi
AfterAdd(oi) ==
    ret.op = "add_order" /\ ret.exc = "none" /\ ret.recursive /\ ret.args = << oi >>

\* get_orders(id = order.id): the caller reloads one of its orders
GetOrdersById ==
    /\ calls < MaxCalls
    /\ \E oi \in Objs :
         /\ mem[oi].id # Null
         /\ LET db == [o |-> tbl_order, h |-> tbl_host, v |-> tbl_variable]
                kw == [NoKwargs EXCEPT !.id = Scalar(mem[oi].id)]
            IN  \E engine \in Perms(Matching(tbl_order, kw)) :
                  ret' = [NoRet EXCEPT !.op = "get_orders", !.args = << oi >>,
                             !.afteradd = AfterAdd(oi),
                             !.alldirty = ret.alldirty,
                             !.value = get_orders(db, engine, 0, 0, TRUE, kw)]
    /\ calls' = calls + 1
    /\ UNCHANGED << tbl_order, tbl_host, tbl_variable, mem, clock >>
    /\ Idle

\* The caller changes an object it holds.
\* host.set_name(name): the dirty flag is not touched
SetName ==
    /\ calls < MaxCalls
    /\ \E oi \in Objs : \E hi \in 1..Len(mem[oi].hosts) : \E name \in Names :
         /\ mem[oi].hosts[hi].name # name
         /\ mem' = [mem EXCEPT ![oi].hosts[hi].name = name]
    /\ ret' = [NoRet EXCEPT !.op = "caller"]
    /\ calls' = calls + 1
    /\ UNCHANGED << tbl_order, tbl_host, tbl_variable, clock >>
    /\ Idle

\* host.touch()
Touch ==
    /\ calls < MaxCalls
    /\ \E oi \in Objs : \E hi \in 1..Len(mem[oi].hosts) :
         /\ ~mem[oi].hosts[hi].dirty
         /\ mem' = [mem EXCEPT ![oi].hosts[hi].dirty = TRUE]
    /\ ret' = [NoRet EXCEPT !.op = "caller"]
    /\ calls' = calls + 1
    /\ UNCHANGED << tbl_order, tbl_host, tbl_variable, clock >>
    /\ Idle

\* order.close(): status and the closed timestamp of the object
CloseOrder ==
    /\ calls < MaxCalls
    /\ \E oi \in Objs :
         mem' = [mem EXCEPT ![oi].closed = clock, ![oi].status = "done"]
    /\ clock' = clock + 1
    /\ ret' = [NoRet EXCEPT !.op = "caller"]
    /\ calls' = calls + 1
    /\ UNCHANGED << tbl_order, tbl_host, tbl_variable >>
    /\ Idle

ClearDatabase == ClearDatabaseCall(MaxCalls)

NoThreads == [t \in {} |-> 0]

Init ==
    /\ tbl_order = EmptyTable
    /\ tbl_host = EmptyTable
    /\ tbl_variable = EmptyTable
    /\ \E h1 \in InitHostLists1, h2 \in InitHostLists2 :
         mem = << NewOrder("s1", h1), NewOrder("s2", h2) >>
    /\ clock = 1
    /\ calls = 0
    /\ ret = NoRet
    /\ pc = NoThreads
    /\ rlock = [owner |-> 0, depth |-> 0]
    /\ writer = {}

Next ==
    \/ AddOrder
    \/ SaveOrder
    \/ CloseOpenOrders
    \/ ClearDatabase
    \/ GetOrdersById
    \/ SetName
    \/ Touch
    \/ CloseOrder

Spec == Init /\ [][Next]_vars

(***************************************************************************)
(* SpecTx: the same caller, and an engine that may fail at any statement   *)
(***************************************************************************)
AddOrderFail == AddOrderCall(MaxTxCalls, TRUE)

SaveOrderFail == SaveOrderCall(MaxTxCalls, TRUE)

ClearDatabaseTx == ClearDatabaseCall(MaxTxCalls)

NextTx ==
    \/ AddOrderFail
    \/ SaveOrderFail
    \/ ClearDatabaseTx

SpecTx == Init /\ [][NextTx]_vars

(***************************************************************************)
(* Properties of the write path                                            *)
(***************************************************************************)
IsCall(op) == calls' = calls + 1 /\ ret'.op = op

StorageUnchanged ==
    /\ tbl_order' = tbl_order
    /\ tbl_host' = tbl_host
    /\ tbl_variable' = tbl_variable

\* C1: when add_order raises, whichever statement failed, storage is what it
\* was before the call, and the exception that reaches the caller is the one
\* that was raised first.
C1_AddOrderRollback ==
    [][(IsCall("add_order") /\ ret'.exc # "none")
          => (StorageUnchanged /\ ret'.exc = ret'.orig)]_vars

\* a batch of two orders failed after at least four statements: the first
\* order had been inserted (it carries an id) and its row is gone
C1_Witness ==
    /\ ret.op = "add_order"
    /\ ret.exc = "EngineError"
    /\ Len(ret.args) = 2
    /\ ret.n >= 4
    /\ mem[ret.args[1]].id # Null
    /\ mem[ret.args[1]].id \notin DOMAIN tbl_order

\* C2: when save_order raises, storage is what it was before the call, the
\* rows of orders inserted through the add_order fallback included.
C2_SaveOrderRollback ==
    [][(IsCall("save_order") /\ ret'.exc # "none") => StorageUnchanged]_vars

\* a save_order of two orders that fell back to add_order for the first one
\* and failed later: that order has an id and no row
C2_Witness ==
    /\ ret.op = "save_order"
    /\ ret.exc = "EngineError"
    /\ Len(ret.args) = 2
    /\ ret.fb >= 1
    /\ ret.n >= 3
    /\ mem[ret.args[1]].id # Null
    /\ mem[ret.args[1]].id \notin DOMAIN tbl_order

C3_RoundTrip ==
    (ret.op = "get_orders" /\ ret.afteradd)
        => ret.value = << Proj(mem[ret.args[1]]) >>

\* C3 (amended): the same, for an order whose hosts were all dirty when it
\* was added (a host that is not dirty is not inserted).
C3_RoundTripDirty ==
    (ret.op = "get_orders" /\ ret.afteradd /\ ret.alldirty)
        => ret.value = << Proj(mem[ret.args[1]]) >>

\* an order with two hosts, the first with two variables and the second with
\* none, was added and loaded again
C3_Witness ==
    /\ ret.op = "get_orders"
    /\ ret.afteradd
    /\ ret.alldirty
    /\ Len(ret.value) = 1
    /\ Len(ret.value[1].hosts) = 2
    /\ DOMAIN ret.value[1].hosts[1].vars = {"k1", "k2"}
    /\ DOMAIN ret.value[1].hosts[2].vars = {}

\* the host rows of (order_id, address), and the variable rows of those hosts
HostKeyRows(h, order_id, address) ==
    {i \in DOMAIN h : h[i].order_id = order_id /\ h[i].address = address}

SameHostRows(order_id, address) ==
    LET before == HostKeyRows(tbl_host, order_id, address)
    IN  /\ HostKeyRows(tbl_host', order_id, address) = before
        /\ \A i \in before : tbl_host'[i] = tbl_host[i]
        /\ \A i \in before :
              LET vs == {v \in DOMAIN tbl_variable : tbl_variable[v].host_id = i}
              IN  /\ {v \in DOMAIN tbl_variable' : tbl_variable'[v].host_id = i} = vs
                  /\ \A v \in vs : tbl_variable'[v] = tbl_variable[v]

\* a dirty host of the call that is stored under the same (order_id, address)
DirtyTwin(list, order_id, address) ==
    \E k \in 1..Len(list) : \E hj \in 1..Len(mem[list[k]].hosts) :
        /\ mem[list[k]].id = order_id
        /\ mem[list[k]].hosts[hj].address = address
        /\ mem[list[k]].hosts[hj].dirty

\* C8: save_order of a stored order writes nothing for a host that is not
\* dirty: the host row of its (order_id, address) and the variable rows of
\* that host are after the call what they were before, whatever the
\* in-memory host holds.
C8_DirtySuppression ==
    [][IsCall("save_order") =>
         \A k \in 1..Len(ret'.args) :
            LET o == mem[ret'.args[k]]
            IN  o.id \in DOMAIN tbl_order =>
                  \A hi \in 1..Len(o.hosts) :
                     (~o.hosts[hi].dirty
                        /\ ~DirtyTwin(ret'.args, o.id, o.hosts[hi].address))
                        => SameHostRows(o.id, o.hosts[hi].address)]_vars

\* save_order updated a stored order (no fallback) one of whose hosts is not
\* dirty and has another name in memory than in storage
C8_Witness ==
    /\ ret.op = "save_order"
    /\ ret.exc = "none"
    /\ ret.fb = 0
    /\ \E k \in 1..Len(ret.args) :
         LET o == mem[ret.args[k]]
         IN  \E hi \in 1..Len(o.hosts) :
               /\ ~o.hosts[hi].dirty
               /\ \E i \in HostKeyRows(tbl_host, o.id, o.hosts[hi].address) :
                     tbl_host[i].name # o.hosts[hi].name

ClosedOps == {"add_order", "save_order", "close_open_orders"}

\* C10 (as claimed): add_order, save_order and close_open_orders never change
\* a stored closed timestamp.
C10_ClosedSetOnce ==
    [][(calls' = calls + 1 /\ ret'.op \in ClosedOps) =>
         \A i \in DOMAIN tbl_order :
            tbl_order[i].closed # Null =>
               (i \in DOMAIN tbl_order' /\ tbl_order'[i].closed = tbl_order[i].closed)]_vars

\* C10 (amended): add_order and close_open_orders never change a stored
\* closed timestamp; save_order of an order object overwrites the stored
\* closed field with the object's value (null or any timestamp).
C10_ClosedChangesOnlyOnSave ==
    [][(calls' = calls + 1 /\ ret'.op \in ClosedOps) =>
         \A i \in DOMAIN tbl_order :
            /\ i \in DOMAIN tbl_order'
            /\ (tbl_order[i].closed # Null /\ tbl_order'[i].closed # tbl_order[i].closed)
                  => /\ ret'.op = "save_order"
                     /\ \E k \in 1..Len(ret'.args) :
                           /\ mem[ret'.args[k]].id = i
                           /\ tbl_order'[i].closed = mem[ret'.args[k]].closed]_vars

\* close_open_orders ran over an order that had been closed earlier: its
\* timestamp is older than the one this call wrote
C10_Witness ==
    /\ ret.op = "close_open_orders"
    /\ \E i \in DOMAIN tbl_order :
          tbl_order[i].closed # Null /\ tbl_order[i].closed < clock - 1

(***************************************************************************)
(* SpecQuery: a store that callers fill with add_order and then query      *)
(***************************************************************************)
\* the orders that are added: every (service, status), with 0, 1 and 2
\* hosts and 0 and 2 variables
QOrder(service, status, hosts) == [NewOrder(service, hosts) EXCEPT !.status = status]

QOrders ==
    { QOrder("s1", "new", << >>),
      QOrder("s1", "done", << NewHost("a1", "n1", TwoVars), NewHost("a2", "n2", NoVars) >>),
      QOrder("s2", "new", << NewHost("a1", "n1", NoVars) >>),
      QOrder("s2", "done", << NewHost("a1", "n1", TwoVars) >>) }

IdArgs == {Absent, Scalar(1), List(<< 1, 2 >>), List(<< >>)}
ServiceArgs == {Absent, Scalar("s1"), List(<< "s1", "s2" >>), List(<< >>)}
StatusArgs == {Absent, Scalar("new"), List(<< "done", "new" >>)}
KwargSet == {[id |-> a, service |-> b, status |-> c] :
                a \in IdArgs, b \in ServiceArgs, c \in StatusArgs}
PageKwargs == {NoKwargs, [NoKwargs EXCEPT !.service = Scalar("s2")]}

QRet(op) ==
    [op |-> op, offset |-> 0, limit |-> 0, recursive |-> TRUE, kwargs |-> NoKwargs,
     exc |-> "none", value |-> << >>]

QUnchanged == UNCHANGED << mem, clock, pc, rlock, writer >>

\* A query leaves storage as it is, so a query made after another query
\* returns what it returns when made first: the queries are explored from
\* the states that Init and add_order leave.
NoResultHeld == ret.op \in {"none", "add_order"}

QAddOrder ==
    /\ calls < MaxOrders
    /\ \E order \in QOrders :
         LET st == add_order([Ctx(0) EXCEPT !.mem = << order >>],
                             [isNone |-> FALSE, list |-> << 1 >>], TRUE)
         IN  /\ tbl_order' = st.o
             /\ tbl_host' = st.h
             /\ tbl_variable' = st.v
    /\ calls' = calls + 1
    /\ ret' = QRet("add_order")
    /\ QUnchanged

\* get_orders(**kwargs), and get_orders(recursive = False, **kwargs)
QFilter ==
    /\ NoResultHeld
    /\ \E kwargs \in KwargSet, recursive \in BOOLEAN :
         \E engine \in Perms(Matching(tbl_order, kwargs)) :
            ret' = [QRet("get_orders") EXCEPT
                      !.recursive = recursive,
                      !.kwargs = kwargs,
                      !.value = get_orders([o |-> tbl_order, h |-> tbl_host, v |-> tbl_variable],
                                           engine, 0, 0, recursive, kwargs)]
    /\ UNCHANGED << tbl_order, tbl_host, tbl_variable, calls >>
    /\ QUnchanged

\* get_orders(offset, limit, ...)
QPage ==
    /\ NoResultHeld
    /\ \E kwargs \in PageKwargs, recursive \in BOOLEAN, offset \in 0..2, limit \in 1..3 :
         \E engine \in Perms(Matching(tbl_order, kwargs)) :
            ret' = [QRet("get_orders") EXCEPT
                      !.offset = offset,
                      !.limit = limit,
                      !.recursive = recursive,
                      !.kwargs = kwargs,
                      !.value = get_orders([o |-> tbl_order, h |-> tbl_host, v |-> tbl_variable],
                                           engine, offset, limit, recursive, kwargs)]
    /\ UNCHANGED << tbl_order, tbl_host, tbl_variable, calls >>
    /\ QUnchanged

\* get_order(**kwargs)
QGetOrder ==
    /\ NoResultHeld
    /\ \E kwargs \in KwargSet :
         \E engine \in Perms(Matching(tbl_order, kwargs)) :
            LET r == get_order([o |-> tbl_order, h |-> tbl_host, v |-> tbl_variable],
                               engine, kwargs)
            IN  ret' = [QRet("get_order") EXCEPT
                          !.limit = 2, !.kwargs = kwargs, !.exc = r.exc, !.value = r.list]
    /\ UNCHANGED << tbl_order, tbl_host, tbl_variable, calls >>
    /\ QUnchanged

InitQuery ==
    /\ tbl_order = EmptyTable
    /\ tbl_host = EmptyTable
    /\ tbl_variable = EmptyTable
    /\ mem = << >>
    /\ clock = 1
    /\ calls = 0
    /\ ret = QRet("none")
    /\ pc = NoThreads
    /\ rlock = [owner |-> 0, depth |-> 0]
    /\ writer = {}

NextQuery ==
    \/ QAddOrder
    \/ QFilter
    \/ QPage
    \/ QGetOrder

SpecQuery == InitQuery /\ [][NextQuery]_vars

(***************************************************************************)
(* Properties of queries                                                   *)
(***************************************************************************)
IdsOf(order_list) == [i \in 1..Len(order_list) |-> order_list[i].id]

\* the criteria as documented: a supplied field admits the values supplied
\* for it (OR), the fields are combined with AND, an absent field admits all
Admits(arg, x) == arg.kind = "absent" \/ \E i \in 1..Len(arg.vals) : arg.vals[i] = x

Meets(kwargs) ==
    {i \in DOMAIN tbl_order :
        /\ Admits(kwargs.id, i)
        /\ Admits(kwargs.service, tbl_order[i].service)
        /\ Admits(kwargs.status, tbl_order[i].status)}

\* C4: get_orders(offset, limit), recursive, returns the orders at rank
\* [offset, offset + limit) of the matching orders by descending id.
C4_Pagination ==
    (ret.op = "get_orders" /\ ret.recursive /\ ret.limit >= 1)
        => IdsOf(ret.value) = Slice(DescSeq(Meets(ret.kwargs)), ret.offset, ret.limit)

\* C5: get_orders returns exactly the stored orders that meet the criteria,
\* for scalars and for lists of any length, the empty list included.
C5_Filtering ==
    (ret.op = "get_orders" /\ ret.offset = 0 /\ ret.limit = 0)
        => Range(IdsOf(ret.value)) = Meets(ret.kwargs)

\* C6: get_order returns null when no stored order meets the criteria, the
\* order when exactly one does, and raises when two or more do.
C6_GetOrder ==
    ret.op = "get_order" =>
        LET m == Meets(ret.kwargs)
        IN  /\ m = {} => (ret.exc = "none" /\ ret.value = << >>)
            /\ Cardinality(m) = 1 => (ret.exc = "none" /\ Range(IdsOf(ret.value)) = m)
            /\ Cardinality(m) >= 2 => ret.exc = "TooManyResults"

(***************************************************************************)
(* SpecConc: threads that call one store, statement by statement.          *)
(*                                                                         *)
(* pc[t] = [at, op, todo, order_id, cut, mixed]: the position of thread t, *)
(* the public call it is making, the number of orders of its batch that    *)
(* are still to be added and the id of the order it inserted last.  cut    *)
(* and mixed are history: cut says that another thread wrote to storage    *)
(* after this call's first write, mixed that this call wrote again after   *)
(* that.  An order of a batch is Order("s1") with one host and no          *)
(* variable.  The positions of add_order:                                  *)
(*   lock_order    wrapped() of __add_order: with rlock                    *)
(*   insert_order  the INSERT of __add_order                               *)
(*   lock_host     wrapped() of __add_host: with rlock (nested)            *)
(*   insert_host   the INSERT of __add_host                                *)
(*   unlock_host   leaving the with block of __add_host                    *)
(*   unlock_order  leaving the with block of __add_order                   *)
(*   commit        transaction.commit()                                    *)
(* of close_open_orders: update (no synchronized wrapper);                 *)
(* of clear_database: lock_clear, delete, unlock_clear.                    *)
(***************************************************************************)
Threads == {1, 2}

IdlePc == [at |-> "idle", op |-> "none", todo |-> 0, order_id |-> Null,
           cut |-> FALSE, mixed |-> FALSE]

StartPc(at, op, todo) == [IdlePc EXCEPT !.at = at, !.op = op, !.todo = todo]

\* thread t writes to storage and goes on as p: the calls of the other
\* threads that have written and not returned are cut
WriteBy(t, p) ==
    [u \in Threads |->
        IF u = t THEN [p EXCEPT !.mixed = pc[t].mixed \/ pc[t].cut]
        ELSE IF u \in writer THEN [pc[u] EXCEPT !.cut = TRUE]
        ELSE pc[u]]

\* the position after acquiring, and after releasing, the lock
AfterAcquire(at) ==
    CASE at = "lock_order" -> "insert_order"
      [] at = "lock_host" -> "insert_host"
      [] at = "lock_clear" -> "delete"

AfterRelease(p) ==
    CASE p.at = "unlock_host" -> [p EXCEPT !.at = "unlock_order"]
      [] p.at = "unlock_order" ->
            IF p.todo > 1 THEN [p EXCEPT !.at = "lock_order", !.todo = @ - 1]
            ELSE [p EXCEPT !.at = "commit", !.todo = 0]
      [] p.at = "unlock_clear" -> IdlePc

ConcUnchanged == UNCHANGED << mem, ret >>

\* a thread calls add_order(orders) with one or two orders: begin()
CallAddOrder(t) ==
    /\ pc[t].at = "idle"
    /\ calls < MaxConcCalls
    /\ \E len \in {1, 2} :
         pc' = [pc EXCEPT ![t] = StartPc("lock_order", "add_order", len)]
    /\ calls' = calls + 1
    /\ UNCHANGED << tbl_order, tbl_host, tbl_variable, clock, rlock, writer >>
    /\ ConcUnchanged

\* a thread calls close_open_orders()
CallCloseOpenOrders(t) ==
    /\ pc[t].at = "idle"
    /\ calls < MaxConcCalls
    /\ pc' = [pc EXCEPT ![t] = StartPc("update", "close_open_orders", 0)]
    /\ calls' = calls + 1
    /\ UNCHANGED << tbl_order, tbl_host, tbl_variable, clock, rlock, writer >>
    /\ ConcUnchanged

\* a thread calls clear_database()
CallClearDatabase(t) ==
    /\ pc[t].at = "idle"
    /\ calls < MaxConcCalls
    /\ pc' = [pc EXCEPT ![t] = StartPc("lock_clear", "clear_database", 0)]
    /\ calls' = calls + 1
    /\ UNCHANGED << tbl_order, tbl_host, tbl_variable, clock, rlock, writer >>
    /\ ConcUnchanged

\* synchronized.wrapped: with rlock (entering); the lock is reentrant
Acquire(t) ==
    /\ pc[t].at \in {"lock_order", "lock_host", "lock_clear"}
    /\ rlock.owner \in {0, t}
    /\ rlock' = [owner |-> t, depth |-> rlock.depth + 1]
    /\ pc' = [pc EXCEPT ![t].at = AfterAcquire(pc[t].at)]
    /\ UNCHANGED << tbl_order, tbl_host, tbl_variable, clock, calls, writer >>
    /\ ConcUnchanged

\* synchronized.wrapped: with rlock (leaving)
Release(t) ==
    /\ pc[t].at \in {"unlock_host", "unlock_order", "unlock_clear"}
    /\ rlock' = IF rlock.depth = 1 THEN [owner |-> 0, depth |-> 0]
                ELSE [rlock EXCEPT !.depth = @ - 1]
    /\ pc' = [pc EXCEPT ![t] = AfterRelease(pc[t])]
    /\ writer' = IF pc[t].at = "unlock_clear" THEN writer \ {t} ELSE writer
    /\ UNCHANGED << tbl_order, tbl_host, tbl_variable, clock, calls >>
    /\ ConcUnchanged

\* __add_order: insert.execute(...)
InsertOrder(t) ==
    /\ pc[t].at = "insert_order"
    /\ tbl_order' = Put(tbl_order, last_inserted_id(tbl_order),
                        OrderFields(NewOrder("s1", << >>)))
    /\ pc' = WriteBy(t, [pc[t] EXCEPT !.at = "lock_host",
                                      !.order_id = last_inserted_id(tbl_order)])
    /\ writer' = writer \cup {t}
    /\ UNCHANGED << tbl_host, tbl_variable, clock, calls, rlock >>
    /\ ConcUnchanged

\* __add_host: insert.execute(...); the order is the one this thread inserted
\* last (order.id)
InsertHost(t) ==
    /\ pc[t].at = "insert_host"
    /\ tbl_host' = Put(tbl_host, last_inserted_id(tbl_host),
                       [order_id |-> pc[t].order_id, name |-> "n1", address |-> "a1"])
    /\ pc' = WriteBy(t, [pc[t] EXCEPT !.at = "unlock_host"])
    /\ UNCHANGED << tbl_order, tbl_variable, clock, calls, rlock, writer >>
    /\ ConcUnchanged

\* add_order: transaction.commit(); the call returns
CommitCall(t) ==
    /\ pc[t].at = "commit"
    /\ pc' = [pc EXCEPT ![t] = IdlePc]
    /\ writer' = writer \ {t}
    /\ UNCHANGED << tbl_order, tbl_host, tbl_variable, clock, calls, rlock >>
    /\ ConcUnchanged

\* close_open_orders: query.execute(closed = datetime.now()); the call returns
UpdateClosed(t) ==
    /\ pc[t].at = "update"
    /\ tbl_order' = close_open_orders(tbl_order, clock)
    /\ clock' = clock + 1
    /\ pc' = WriteBy(t, IdlePc)
    /\ UNCHANGED << tbl_host, tbl_variable, calls, rlock, writer >>
    /\ ConcUnchanged

\* clear_database: delete.execute()
DeleteOrders(t) ==
    /\ pc[t].at = "delete"
    /\ LET db == clear_database([o |-> tbl_order, h |-> tbl_host, v |-> tbl_variable])
       IN  /\ tbl_order' = db.o
           /\ tbl_host' = db.h
           /\ tbl_variable' = db.v
    /\ pc' = WriteBy(t, [pc[t] EXCEPT !.at = "unlock_clear"])
    /\ writer' = writer \cup {t}
    /\ UNCHANGED << clock, calls, rlock >>
    /\ ConcUnchanged

InitConc ==
    /\ tbl_order = EmptyTable
    /\ tbl_host = EmptyTable
    /\ tbl_variable = EmptyTable
    /\ mem = << >>
    /\ clock = 1
    /\ calls = 0
    /\ ret = NoRet
    /\ pc = [t \in Threads |-> IdlePc]
    /\ rlock = [owner |-> 0, depth |-> 0]
    /\ writer = {}

NextConc ==
    \E t \in Threads :
        \/ CallAddOrder(t)
        \/ CallCloseOpenOrders(t)
        \/ CallClearDatabase(t)
        \/ Acquire(t)
        \/ Release(t)
        \/ InsertOrder(t)
        \/ InsertHost(t)
        \/ CommitCall(t)
        \/ UpdateClosed(t)
        \/ DeleteOrders(t)

SpecConc == InitConc /\ [][NextConc]_vars

(***************************************************************************)
(* Properties of concurrent callers                                        *)
(***************************************************************************)
\* C7: the mutating calls exclude each other, so the storage writes of one
\* call are never interleaved with the writes of another call: no call
\* writes, is overtaken by a write of another thread, and writes again.
C7_WritesNotInterleaved == \A t \in Threads : ~pc[t].mixed

(***************************************************************************)
(* SpecEdit: a caller that removes hosts and variables from the orders it  *)
(* holds and saves them again                                              *)
(***************************************************************************)
\* the caller removes a host from an order it holds
RemoveHost ==
    /\ calls < MaxCalls
    /\ \E oi \in Objs : \E hi \in 1..Len(mem[oi].hosts) :
         mem' = [mem EXCEPT ![oi].hosts =
                    SubSeq(@, 1, hi - 1) \o SubSeq(@, hi + 1, Len(@))]
    /\ ret' = [NoRet EXCEPT !.op = "caller"]
    /\ calls' = calls + 1
    /\ UNCHANGED << tbl_order, tbl_host, tbl_variable, clock >>
    /\ Idle

\* the caller removes a variable from a host, which marks the host dirty
RemoveVar ==
    /\ calls < MaxCalls
    /\ \E oi \in Objs : \E hi \in 1..Len(mem[oi].hosts) :
         \E key \in DOMAIN mem[oi].hosts[hi].vars :
            mem' = [mem EXCEPT ![oi].hosts[hi].vars =
                                  [k \in DOMAIN @ \ {key} |-> @[k]],
                               ![oi].hosts[hi].dirty = TRUE]
    /\ ret' = [NoRet EXCEPT !.op = "caller"]
    /\ calls' = calls + 1
    /\ UNCHANGED << tbl_order, tbl_host, tbl_variable, clock >>
    /\ Idle

NextEdit ==
    \/ AddOrder
    \/ SaveOrder
    \/ Touch
    \/ RemoveHost
    \/ RemoveVar

SpecEdit == Init /\ [][NextEdit]_vars

\* the stored hosts of the saved orders that the in-memory orders no longer
\* hold, and the stored variables that their in-memory hosts no longer hold
RemovedHostRows ==
    {i \in DOMAIN tbl_host :
        \E k \in 1..Len(ret.args) :
           LET o == mem[ret.args[k]]
           IN  /\ tbl_host[i].order_id = o.id
               /\ \A hi \in 1..Len(o.hosts) : o.hosts[hi].address # tbl_host[i].address}

RemovedVarRows ==
    {v \in DOMAIN tbl_variable :
        \E k \in 1..Len(ret.args) :
           LET o == mem[ret.args[k]]
           IN  \E hi \in 1..Len(o.hosts) :
                  /\ tbl_variable[v].host_id \in
                        HostKeyRows(tbl_host, o.id, o.hosts[hi].address)
                  /\ tbl_variable[v].name \notin DOMAIN o.hosts[hi].vars}

\* C11: save_order never deletes a host or a variable row: every row stored
\* before the call is stored after it, under the same order and address
\* (host) and the same host and name (variable).
C11_NoDeletionOnSave ==
    [][IsCall("save_order") =>
         /\ \A i \in DOMAIN tbl_host :
               /\ i \in DOMAIN tbl_host'
               /\ tbl_host'[i].order_id = tbl_host[i].order_id
               /\ tbl_host'[i].address = tbl_host[i].address
         /\ \A v \in DOMAIN tbl_variable :
               /\ v \in DOMAIN tbl_variable'
               /\ tbl_variable'[v].host_id = tbl_variable[v].host_id
               /\ tbl_variable'[v].name = tbl_variable[v].name]_vars

\* an order was saved again (found and updated) after the caller had removed
\* a host from it: the row of that host is still stored
C11_Witness ==
    /\ ret.op = "save_order"
    /\ ret.exc = "none"
    /\ ret.fb = 0
    /\ RemovedHostRows # {}

\* the same after the caller had removed a variable from a host it kept
C11_WitnessVar ==
    /\ ret.op = "save_order"
    /\ ret.exc = "none"
    /\ ret.fb = 0
    /\ RemovedVarRows # {}

(***************************************************************************)
(* Properties of save_order's insert / update decision                     *)
(***************************************************************************)
\* the stored row holds the four mutable fields of the order object
RowHolds(row, order) ==
    /\ row.service = order.service
    /\ row.status = order.status
    /\ row.closed = order.closed
    /\ row.created_by = order.created_by

MaxArgCalls == 3         \* calls per behaviour of SpecArgs

\* None in the place of a host
NoneHost == [address |-> "", name |-> "", vars |-> NoVars, dirty |-> FALSE, none |-> TRUE]

\* the host lists of the first order: None alone, and None after a host
NoneHostLists ==
    { << NoneHost >>,
      << NewHost("a1", "n1", OneVar), NoneHost >> }

\* orders = None, a list that holds None (0), and lists of orders
NullableArgs ==
    {[isNone |-> TRUE, list |-> << >>]} \cup
    {[isNone |-> FALSE, list |-> l] :
        l \in {<< 0 >>, << 2, 0 >>, << 1 >>, << 2 >>, << 2, 1 >>}}

ArgReturned(op, orders, recursive, st) ==
    [op |-> op, isNone |-> orders.isNone, args |-> orders.list,
     recursive |-> recursive, exc |-> st.exc, orig |-> st.orig, n |-> st.n]

ArgAddOrder ==
    /\ calls < MaxArgCalls
    /\ \E orders \in NullableArgs, recursive \in BOOLEAN :
         LET st == add_order(Ctx(0), orders, recursive)
         IN  /\ Commit(st)
             /\ ret' = ArgReturned("add_order", orders, recursive, st)
    /\ calls' = calls + 1
    /\ UNCHANGED clock
    /\ Idle

ArgSaveOrder ==
    /\ calls < MaxArgCalls
    /\ \E orders \in NullableArgs, recursive \in BOOLEAN :
         LET st == save_order(Ctx(0), orders, recursive)
         IN  /\ Commit(st)
             /\ ret' = ArgReturned("save_order", orders, recursive, st)
    /\ calls' = calls + 1
    /\ UNCHANGED clock
    /\ Idle

InitArgs ==
    /\ tbl_order = EmptyTable
    /\ tbl_host = EmptyTable
    /\ tbl_variable = EmptyTable
    /\ \E h1 \in NoneHostLists, h2 \in InitHostLists2 :
         mem = << NewOrder("s1", h1), NewOrder("s2", h2) >>
    /\ clock = 1
    /\ calls = 0
    /\ ret = ArgReturned("none", [isNone |-> FALSE, list |-> << >>], TRUE, Ctx(0))
    /\ pc = NoThreads
    /\ rlock = [owner |-> 0, depth |-> 0]
    /\ writer = {}

NextArgs ==
    \/ ArgAddOrder
    \/ ArgSaveOrder

SpecArgs == InitArgs /\ [][NextArgs]_vars

\* the argument is None, or holds None in the place of an order
NullOrder(r) == r.isNone \/ \E i \in 1..Len(r.args) : r.args[i] = 0

\* an order of the argument holds None in the place of a host
NullHost(r) ==
    \E i \in 1..Len(r.args) :
       /\ r.args[i] # 0
       /\ \E hi \in 1..Len(mem[r.args[i]].hosts) : mem[r.args[i]].hosts[hi].none

\* C13 (as claimed): add_order and save_order with a None argument, a None
\* order or a None host raise AttributeError and leave storage as it was.
C13_NullRejected ==
    [][(calls' = calls + 1 /\ (NullOrder(ret') \/ NullHost(ret')))
          => (ret'.exc = "AttributeError" /\ StorageUnchanged)]_vars

\* C13 (amended): the same, where a None host counts only in a recursive
\* call (with recursive = False the hosts are not visited).
C13_NullRejectedRecursive ==
    [][(calls' = calls + 1 /\ (NullOrder(ret') \/ (ret'.recursive /\ NullHost(ret'))))
          => (ret'.exc = "AttributeError" /\ StorageUnchanged)]_vars

\* a recursive save_order of two orders raised on the None host that follows
\* a host of the second order, after both orders and two hosts had been
\* inserted: nothing of it is stored
C13_Witness ==
    /\ ret.op = "save_order"
    /\ ret.recursive
    /\ ret.exc = "AttributeError"
    /\ ret.args = << 2, 1 >>
    /\ Len(mem[1].hosts) = 2
    /\ ret.n >= 4
    /\ mem[1].id # Null
    /\ mem[1].id \notin DOMAIN tbl_order

(***************************************************************************)
(* Properties of close_open_orders                                         *)
(***************************************************************************)
\* C14: close_open_orders writes the current time into closed of every
\* stored order whose closed is null; the status (and service, created_by)
\* of every order, the closed timestamp of every order that had one, and
\* all host and variable rows are after the call what they were before.
C14_CloseOpenOrdersFrame ==
    [][IsCall("close_open_orders") =>
         /\ DOMAIN tbl_order' = DOMAIN tbl_order
         /\ \A i \in DOMAIN tbl_order :
               /\ tbl_order'[i].closed =
                     IF tbl_order[i].closed = Null THEN clock ELSE tbl_order[i].closed
               /\ tbl_order'[i].status = tbl_order[i].status
               /\ tbl_order'[i].service = tbl_order[i].service
               /\ tbl_order'[i].created_by = tbl_order[i].created_by
         /\ tbl_host' = tbl_host
         /\ tbl_variable' = tbl_variable]_vars

\* close_open_orders ran over an open order with status "new", which it
\* closed now, and over an order that the caller had closed before
C14_Witness ==
    /\ ret.op = "close_open_orders"
    /\ \E i, j \in DOMAIN tbl_order :
          /\ tbl_order[i].closed = clock - 1
          /\ tbl_order[i].status = "new"
          /\ tbl_order[j].closed # Null
          /\ tbl_order[j].closed < clock - 1
          /\ tbl_order[j].status = "done"

(***************************************************************************)
(* SpecGroup: __get_orders_from_query, iteration by iteration, on a cursor *)
(* over a flattened result.                                                *)
(*                                                                         *)
(* mem is the result set (the rows in cursor order), ret.value the         *)
(* order_list built so far, and pc the position of the grouper:            *)
(*   at             start, outer, host, var, after_host, done              *)
(*   cur            index of `row` (Len(mem) + 1: row is None)             *)
(*   fetches        number of fetchone() calls made                        *)
(*   last_order_id, last_host_id                                           *)
(*   o_at, o_n      cur at the start of the last iteration of the outer    *)
(*                  loop and the number of its iterations so far           *)
(*   h_at, h_n      the same for the host loop entered last                *)
(***************************************************************************)
MaxGroupOrders == 2      \* orders in the result set

\* a result set is described by its orders, an order by its hosts, a host by
\* its number of variables: << << 2, 0 >>, << >> >> is an order with two hosts
\* (two and no variables) followed by an order without hosts
VarCounts == 0..Len(VarOrder)
HostShapes ==
    {<< >>} \cup {<< a >> : a \in VarCounts} \cup {<< a, b >> : a, b \in VarCounts}
Shapes == UNION {[1..k -> HostShapes] : k \in 0..MaxGroupOrders}

\* the row of order p (of K), host h (0: none) and variable v (0: none)
ShapeRow(K, p, h, v) ==
    [ o_id       |-> K - p + 1,
      service    |-> IF p = 1 THEN "s1" ELSE "s2",
      status     |-> "new",
      closed     |-> Null,
      created_by |-> "u1",
      has_h      |-> TRUE,
      h_id       |-> IF h = 0 THEN Null ELSE (p - 1) * 2 + h,
      address    |-> IF h = 0 THEN "" ELSE IF h = 1 THEN "a1" ELSE "a2",
      name       |-> IF h = 0 THEN "" ELSE IF h = 1 THEN "n1" ELSE "n2",
      v_host_id  |-> IF v = 0 THEN Null ELSE (p - 1) * 2 + h,
      v_name     |-> IF v = 0 THEN "" ELSE VarOrder[v],
      v_value    |-> v ]

ShapeHostRows(K, p, h, n) ==
    IF n = 0 THEN << ShapeRow(K, p, h, 0) >>
    ELSE [v \in 1..n |-> ShapeRow(K, p, h, v)]

RECURSIVE ShapeOrderRows(_, _, _, _)
ShapeOrderRows(K, p, hosts, h) ==
    IF hosts = << >> THEN << ShapeRow(K, p, 0, 0) >>
    ELSE IF h > Len(hosts) THEN << >>
    ELSE ShapeHostRows(K, p, h, hosts[h]) \o ShapeOrderRows(K, p, hosts, h + 1)

RECURSIVE ShapeRows(_, _)
ShapeRows(shape, p) ==
    IF p > Len(shape) THEN << >>
    ELSE ShapeOrderRows(Len(shape), p, shape[p], 1) \o ShapeRows(shape, p + 1)

\* faulty variant: after the first row the cursor does not move
fetch_again(cur) == IF cur = 0 THEN 1 ELSE cur

\* result.fetchone(): the cursor moves on by one row (to None after the last)
fetchone(cur) == cur + 1

\* row is None
AtEnd(rows, cur) == cur > Len(rows)

\* faulty variant: the variable loop runs on into the rows of the next host
VarBreak_atEnd(rows, cur, last_host_id) == AtEnd(rows, cur)

\* if not row or last_host_id != row[tbl_h.c.id]: break
VarBreak(rows, cur, last_host_id) ==
    AtEnd(rows, cur) \/ last_host_id # rows[cur].h_id

StartGroup ==
    [at |-> "start", cur |-> 0, fetches |-> 0, last_order_id |-> Null,
     last_host_id |-> Null, o_at |-> 0, o_n |-> 0, h_at |-> 0, h_n |-> 0]

Fetched(p) == [p EXCEPT !.cur = fetchone(p.cur), !.fetches = @ + 1]

GroupUnchanged ==
    UNCHANGED << tbl_order, tbl_host, tbl_variable, mem, clock, calls, rlock, writer >>

\* row = result.fetchone(); if not row: return []
GroupStart ==
    /\ pc.at = "start"
    /\ LET p == Fetched(pc)
       IN  pc' = IF AtEnd(mem, p.cur) THEN [p EXCEPT !.at = "done"]
                 ELSE [p EXCEPT !.at = "outer", !.last_order_id = mem[p.cur].o_id]
    /\ UNCHANGED ret
    /\ GroupUnchanged

\* one pass through the head of the outer loop: while row is not None
GroupOuter ==
    /\ pc.at = "outer"
    /\ IF AtEnd(mem, pc.cur)
       THEN pc' = [pc EXCEPT !.at = "done"] /\ UNCHANGED ret
       ELSE LET row == mem[pc.cur]
                p == [pc EXCEPT !.last_order_id = row.o_id, !.o_at = pc.cur,
                                !.o_n = @ + 1]
            IN  IF row.o_id = Null
                THEN pc' = [p EXCEPT !.at = "done"] /\ UNCHANGED ret
                ELSE /\ ret' = [ret EXCEPT !.value = Append(@, __get_order_from_row(row))]
                     /\ pc' = IF ~row.has_h \/ row.h_id = Null
                              THEN Fetched(p)
                              ELSE [p EXCEPT !.at = "host", !.h_n = 0]
    /\ GroupUnchanged

\* one pass through the head of the host loop: while row and row[tbl_h.c.id]
GroupHost ==
    /\ pc.at = "host"
    /\ IF AtEnd(mem, pc.cur) \/ mem[pc.cur].h_id = Null
          \/ pc.last_order_id # mem[pc.cur].o_id
       THEN pc' = [pc EXCEPT !.at = "after_host"] /\ UNCHANGED ret
       ELSE LET row == mem[pc.cur]
                p == [pc EXCEPT !.last_host_id = row.h_id, !.h_at = pc.cur,
                                !.h_n = @ + 1]
            IN  /\ ret' = [ret EXCEPT !.value = add_host(@, __get_host_from_row(row))]
                /\ pc' = IF row.v_host_id = Null THEN Fetched(p)
                         ELSE [p EXCEPT !.at = "var"]
    /\ GroupUnchanged

\* one pass through the head of the variable loop:
\* while row and row[tbl_v.c.host_id]
GroupVar ==
    /\ pc.at = "var"
    /\ IF AtEnd(mem, pc.cur) \/ mem[pc.cur].v_host_id = Null
       THEN pc' = [pc EXCEPT !.at = "host"] /\ UNCHANGED ret
       ELSE LET row == mem[pc.cur]
                p == Fetched(pc)
            IN  /\ ret' = [ret EXCEPT !.value = host_set(@, row.v_name, row.v_value)]
                /\ pc' = IF VarBreak(mem, p.cur, pc.last_host_id)
                         THEN [p EXCEPT !.at = "host"]
                         ELSE p
    /\ GroupUnchanged

\* after the host loop: if not row: break
GroupAfterHost ==
    /\ pc.at = "after_host"
    /\ pc' = [pc EXCEPT !.at = IF AtEnd(mem, pc.cur) THEN "done" ELSE "outer"]
    /\ UNCHANGED ret
    /\ GroupUnchanged

InitGroup ==
    /\ tbl_order = EmptyTable
    /\ tbl_host = EmptyTable
    /\ tbl_variable = EmptyTable
    /\ \E shape \in Shapes : mem = ShapeRows(shape, 1)
    /\ clock = 1
    /\ calls = 0
    /\ ret = [op |-> "group", value |-> << >>]
    /\ pc = StartGroup
    /\ rlock = [owner |-> 0, depth |-> 0]
    /\ writer = {}

NextGroup ==
    \/ GroupStart
    \/ GroupOuter
    \/ GroupHost
    \/ GroupVar
    \/ GroupAfterHost

SpecGroup == InitGroup /\ [][NextGroup]_vars

\* the interpreter keeps running the grouper until it returns
SpecGroupFair == SpecGroup /\ WF_vars(NextGroup)

(***************************************************************************)
(* Properties of the grouper                                               *)
(***************************************************************************)
RECURSIVE Distinct(_)
\* the distinct elements of a sequence in the order of their first occurrence
Distinct(s) ==
    IF s = << >> THEN << >>
    ELSE LET d == Distinct(SubSeq(s, 1, Len(s) - 1))
         IN  IF s[Len(s)] \in Range(d) THEN d ELSE Append(d, s[Len(s)])

\* the order ids of the rows, and the host ids of the rows of one order
OrderIdsOf(rows) == Distinct([i \in 1..Len(rows) |-> rows[i].o_id])

HostIdsOf(rows, oid) ==
    LET idx == AscSeq({i \in 1..Len(rows) : rows[i].o_id = oid /\ rows[i].h_id # Null})
    IN  Distinct([k \in 1..Len(idx) |-> rows[idx[k]].h_id])

\* the (name, value) pairs of the rows of one host, as a mapping
VarsOf(rows, hid) ==
    LET idx == {i \in 1..Len(rows) : rows[i].h_id = hid /\ rows[i].v_host_id # Null}
    IN  [k \in {rows[i].v_name : i \in idx} |->
            (CHOOSE i \in idx : rows[i].v_name = k) ]

HostOf(rows, hid) ==
    LET r == rows[CHOOSE i \in 1..Len(rows) : rows[i].h_id = hid]
        vs == VarsOf(rows, hid)
    IN  [address |-> r.address, name |-> r.name,
         vars |-> [k \in DOMAIN vs |-> rows[vs[k]].v_value]]

OrderOf(rows, oid) ==
    LET r == rows[CHOOSE i \in 1..Len(rows) : rows[i].o_id = oid]
        hs == HostIdsOf(rows, oid)
    IN  [id |-> oid, service |-> r.service, status |-> r.status, closed |-> r.closed,
         created_by |-> r.created_by,
         hosts |-> [k \in 1..Len(hs) |-> HostOf(rows, hs[k])]]

Grouped(rows) ==
    LET os == OrderIdsOf(rows) IN [k \in 1..Len(os) |-> OrderOf(rows, os[k])]

\* C15: the grouper returns one Order per distinct order id of the rows, in
\* row order, each with one Host per distinct host id of its rows (none for
\* an order without hosts), each Host with exactly the (name, value) pairs
\* of its rows (none for a host without variables).
C15_RowGrouping == pc.at = "done" => ret.value = Grouped(mem)

\* the grouper returned for two orders, the first with two hosts (two and no
\* variables), the second without hosts
C15_Witness ==
    /\ pc.at = "done"
    /\ Len(ret.value) = 2
    /\ Len(ret.value[1].hosts) = 2
    /\ DOMAIN ret.value[1].hosts[1].vars = {"k1", "k2"}
    /\ DOMAIN ret.value[1].hosts[2].vars = {}
    /\ ret.value[2].hosts = << >>

\* the iteration-by-iteration grouper returns what the grouper used by
\* get_orders returns
GrouperAgree == pc.at = "done" => ret.value = __get_orders_from_query(mem)

\* every fetchone() moved the cursor by one row: no row was fetched twice and
\* none was skipped
FetchedOnce == pc.fetches = pc.cur /\ pc.cur <= Len(mem) + 1

\* back at the head of the outer (host) loop after an iteration, the cursor
\* is past the row at which that iteration began
LoopProgress ==
    /\ (pc.at = "outer" /\ pc.o_n > 0) => pc.cur > pc.o_at
    /\ (pc.at = "host" /\ pc.h_n > 0) => pc.cur > pc.h_at

\* the grouper returns only when the cursor is exhausted, having fetched
\* every row and the final None
ExhaustedAtReturn ==
    pc.at = "done" => (pc.cur = Len(mem) + 1 /\ pc.fetches = Len(mem) + 1)

\* C16: the grouper is a single forward pass: every row is fetched exactly
\* once, every iteration of the outer and of the host loop advances the
\* cursor by at least one row, and the grouper terminates, with the cursor
\* exhausted.
C16_SinglePass ==
    /\ [](FetchedOnce /\ LoopProgress /\ ExhaustedAtReturn)
    /\ <>(pc.at = "done")

\* the grouper returned after fetching the seven rows of two orders with two
\* hosts each (and the final None), in four iterations of its loops or more
C16_Witness ==
    /\ pc.at = "done"
    /\ Len(mem) = 7
    /\ pc.fetches = 8
    /\ pc.o_n = 2
    /\ Len(ret.value) = 2
    /\ Len(ret.value[1].hosts) = 2
    /\ Len(ret.value[2].hosts) = 2

(***************************************************************************)
(* Properties of the dirty flag                                            *)
(***************************************************************************)
\* C18: a host's dirty flag is cleared only as part of a write that lasts:
\* when add_order or save_order raises, and its writes are rolled back,
\* every host that was dirty before the call is dirty after it.
C18_DirtyAfterRollback ==
    [][((IsCall("add_order") \/ IsCall("save_order")) /\ ret'.exc # "none") =>
         \A oi \in Objs : \A hi \in 1..Len(mem[oi].hosts) :
            mem[oi].hosts[hi].dirty => mem'[oi].hosts[hi].dirty]_vars

(***************************************************************************)
(* SpecLazy: synchronized.wrapped, statement by statement, for threads     *)
(* that call guarded methods of store instances.                           *)
(*                                                                         *)
(* mem[i] is the __dict__ of instance i (sync_lock = 0: no attribute       *)
(* _sync_lock), clock the identity of the next RLock object created,       *)
(* rlock[l] the thread that holds lock object l (0: free), and pc[t] the   *)
(* position of thread t: the instance it calls (self), the RLock it has    *)
(* created (mine) and the lock it synchronizes on (using).  ret.used is    *)
(* history: the pairs << instance, lock object >> that a call has acquired *)
(* so far.                                                                 *)
(***************************************************************************)
MaxLazyCalls == 3        \* guarded calls per behaviour of SpecLazy

Instances == {1, 2}

\* faulty variant: plain assignment, self._sync_lock = RLock()
dict_assign(value, default) == default

\* self.__dict__.setdefault('_sync_lock', default), given the value stored
\* under the key (0: none): one atomic operation of the interpreter
dict_setdefault(value, default) == IF value = 0 THEN default ELSE value

IdleLazy == [at |-> "idle", self |-> 0, mine |-> 0, using |-> 0]

LazyUnchanged == UNCHANGED << tbl_order, tbl_host, tbl_variable, writer >>

\* a thread calls a guarded method of an instance
LazyCall(t) ==
    /\ pc[t].at = "idle"
    /\ calls < MaxLazyCalls
    /\ \E i \in Instances : pc' = [pc EXCEPT ![t] = [IdleLazy EXCEPT !.at = "read", !.self = i]]
    /\ calls' = calls + 1
    /\ UNCHANGED << mem, clock, rlock, ret >>
    /\ LazyUnchanged

\* try: rlock = self._sync_lock / except AttributeError
LazyRead(t) ==
    /\ pc[t].at = "read"
    /\ pc' = [pc EXCEPT ![t] =
                IF mem[pc[t].self].sync_lock # 0
                THEN [@ EXCEPT !.at = "acquire", !.using = mem[pc[t].self].sync_lock]
                ELSE [@ EXCEPT !.at = "create"]]
    /\ UNCHANGED << mem, clock, calls, rlock, ret >>
    /\ LazyUnchanged

\* RLock(): a new lock object
LazyCreate(t) ==
    /\ pc[t].at = "create"
    /\ pc' = [pc EXCEPT ![t].at = "setdefault", ![t].mine = clock]
    /\ clock' = clock + 1
    /\ rlock' = [l \in DOMAIN rlock \cup {clock} |-> IF l = clock THEN 0 ELSE rlock[l]]
    /\ UNCHANGED << mem, calls, ret >>
    /\ LazyUnchanged

\* rlock = self.__dict__.setdefault('_sync_lock', RLock())
LazySetDefault(t) ==
    /\ pc[t].at = "setdefault"
    /\ LET l == dict_setdefault(mem[pc[t].self].sync_lock, pc[t].mine)
       IN  /\ mem' = [mem EXCEPT ![pc[t].self].sync_lock = l]
           /\ pc' = [pc EXCEPT ![t].at = "acquire", ![t].using = l]
    /\ UNCHANGED << clock, calls, rlock, ret >>
    /\ LazyUnchanged

\* with rlock: (entering)
LazyAcquire(t) ==
    /\ pc[t].at = "acquire"
    /\ rlock[pc[t].using] = 0
    /\ rlock' = [rlock EXCEPT ![pc[t].using] = t]
    /\ pc' = [pc EXCEPT ![t].at = "func"]
    /\ ret' = [ret EXCEPT !.used = @ \cup {<< pc[t].self, pc[t].using >>}]
    /\ UNCHANGED << mem, clock, calls >>
    /\ LazyUnchanged

\* return func(self, ...), leaving the with block
LazyReturn(t) ==
    /\ pc[t].at = "func"
    /\ rlock' = [rlock EXCEPT ![pc[t].using] = 0]
    /\ pc' = [pc EXCEPT ![t] = IdleLazy]
    /\ UNCHANGED << mem, clock, calls, ret >>
    /\ LazyUnchanged

InitLazy ==
    /\ tbl_order = EmptyTable
    /\ tbl_host = EmptyTable
    /\ tbl_variable = EmptyTable
    /\ mem = [i \in Instances |-> [sync_lock |-> 0]]
    /\ clock = 1
    /\ calls = 0
    /\ ret = [op |-> "lock", used |-> {}]
    /\ pc = [t \in Threads |-> IdleLazy]
    /\ rlock = [l \in {} |-> 0]
    /\ writer = {}

NextLazy ==
    \E t \in Threads :
        \/ LazyCall(t)
        \/ LazyRead(t)
        \/ LazyCreate(t)
        \/ LazySetDefault(t)
        \/ LazyAcquire(t)
        \/ LazyReturn(t)

SpecLazy == InitLazy /\ [][NextLazy]_vars

(***************************************************************************)
(* Properties of the lazily created lock                                   *)
(***************************************************************************)
LocksUsed(i) == {u[2] : u \in {w \in ret.used : w[1] = i}}

MaxSaveCalls == 3        \* save_order calls per behaviour

Isolations == {"read uncommitted", "read committed"}

\* faulty variant: a plain Lock, which its owner cannot acquire again
CanAcquire_plain(t) == rlock.owner = 0

\* faulty variant: no lock at all
CanAcquire_always(t) == TRUE

\* RLock.acquire(): free, or held by the calling thread
CanAcquire(t) == rlock.owner \in {0, t}

\* leaving n nested with blocks
Released(n) ==
    IF rlock.depth - n <= 0 THEN [owner |-> 0, depth |-> 0]
    ELSE [rlock EXCEPT !.depth = @ - n]

IdleSave ==
    [at |-> "idle", oi |-> 0, hi |-> 0, vi |-> 0, order_id |-> Null, host_id |-> Null,
     thehost |-> Null, thevar |-> Null, path |-> "none", undo |-> << >>]

Inserted(tbl, id) == [tbl |-> tbl, id |-> id, had |-> FALSE, old |-> 0]
Updated(tbl, id, old) == [tbl |-> tbl, id |-> id, had |-> TRUE, old |-> old]

\* transaction.rollback(): the rows the transaction inserted are removed and
\* the rows it updated are as they were
UndoOne(db, e) ==
    LET tbl == db[e.tbl]
    IN  [db EXCEPT ![e.tbl] =
            IF e.had
            THEN [i \in DOMAIN tbl |-> IF i = e.id THEN e.old ELSE tbl[i]]
            ELSE [i \in DOMAIN tbl \ {e.id} |-> tbl[i]]]

RECURSIVE UndoAll(_, _)
UndoAll(db, log) ==
    IF log = << >> THEN db
    ELSE UndoAll(UndoOne(db, log[Len(log)]), SubSeq(log, 1, Len(log) - 1))

\* the undo logs of the transactions of the threads in S, one after another
RECURSIVE OpenWrites(_)
OpenWrites(S) ==
    IF S = {} THEN << >>
    ELSE LET u == CHOOSE x \in S : TRUE IN pc[u].undo \o OpenWrites(S \ {u})

\* the tables as a SELECT of thread t sees them
View(t) ==
    LET db == [o |-> tbl_order, h |-> tbl_host, v |-> tbl_variable]
    IN  IF ret.isolation = "read uncommitted" THEN db
        ELSE UndoAll(db, OpenWrites(Threads \ {t}))

\* the positions at which a statement is executed
StatementAt == {"so_lookup", "so_update", "ao_insert", "h_select", "h_write",
                "h_insert", "v_select", "v_write", "v_insert"}

\* the first row of a SELECT by natural key (0: fetchone() returned None)
FirstOf(S) == IF S = {} THEN Null ELSE CHOOSE i \in S : \A j \in S : i <= j

\* a thread calls save_order(order): begin()
UCallSaveCall(t, bound) ==
    /\ pc[t].at = "idle"
    /\ calls < bound
    /\ \E oi \in Objs : pc' = [pc EXCEPT ![t] = [IdleSave EXCEPT !.at = "so_lock", !.oi = oi]]
    /\ calls' = calls + 1
    /\ UNCHANGED << tbl_order, tbl_host, tbl_variable, mem, clock, ret, rlock, writer >>

UCallSave(t) == UCallSaveCall(t, MaxSaveCalls)

\* synchronized.wrapped: with rlock (entering)
UAcquire(t) ==
    /\ pc[t].at \in {"so_lock", "ao_lock", "h_lock", "v_lock", "cd_lock"}
    /\ CanAcquire(t)
    /\ rlock' = [owner |-> t, depth |-> rlock.depth + 1]
    /\ pc' = [pc EXCEPT ![t].at =
                CASE pc[t].at = "so_lock" -> "so_lookup"
                  [] pc[t].at = "ao_lock" -> "ao_insert"
                  [] pc[t].at = "cd_lock" -> "cd_delete"
                  [] pc[t].at = "h_lock" -> "h_dirty"
                  [] pc[t].at = "v_lock" ->
                        IF pc[t].path = "add" THEN "v_insert" ELSE "v_select"]
    /\ UNCHANGED << tbl_order, tbl_host, tbl_variable, mem, clock, calls, ret, writer >>

\* __save_order: theorder = self.get_order(id = order.get_id()), when the
\* order has an id
LookupByQuery(t) ==
    LET order == mem[pc[t].oi]
        db == View(t)
        kw == [NoKwargs EXCEPT !.id = Scalar(order.id)]
    IN  IF order.id # Null THEN get_order(db, AnyEngine(db, kw), kw)
        ELSE [exc |-> "none", found |-> FALSE, list |-> << >>]

\* the same, without building the order: get_order returns an order when
\* exactly one order id is selected (LookupAgrees)
Lookup(t) ==
    LET order == mem[pc[t].oi]
        db == View(t)
        kw == [NoKwargs EXCEPT !.id = Scalar(order.id)]
        n == Cardinality(order_select(AnyEngine(db, kw), 0, 2))
    IN  [exc |-> IF order.id # Null /\ n > 1 THEN "TooManyResults" ELSE "none",
         found |-> order.id # Null /\ n = 1]

\* Lookup is what get_order returns
LookupAgrees ==
    \A t \in Threads : pc[t].at = "so_lookup" =>
        /\ Lookup(t).found = LookupByQuery(t).found
        /\ Lookup(t).exc = LookupByQuery(t).exc

\* __save_order: the lookup by id, and the decision
ULookup(t) ==
    /\ pc[t].at = "so_lookup"
    /\ pc' = [pc EXCEPT ![t].at = IF NotFound(Lookup(t)) THEN "ao_lock" ELSE "so_update",
                        ![t].path = IF NotFound(Lookup(t)) THEN "add" ELSE "save"]
    /\ UNCHANGED << tbl_order, tbl_host, tbl_variable, mem, clock, calls, ret, rlock, writer >>

\* __save_order: UPDATE order SET ... WHERE id = order.get_id()
USoUpdate(t) ==
    /\ pc[t].at = "so_update"
    /\ LET order == mem[pc[t].oi]
           there == order.id \in DOMAIN tbl_order
       IN  /\ tbl_order' = [i \in DOMAIN tbl_order |->
                               IF i = order.id THEN OrderFields(order) ELSE tbl_order[i]]
           /\ pc' = [pc EXCEPT ![t].at = "host_next", ![t].hi = 1,
                               ![t].undo = IF there
                                           THEN Append(@, Updated("o", order.id, tbl_order[order.id]))
                                           ELSE @]
    /\ UNCHANGED << tbl_host, tbl_variable, mem, clock, calls, ret, rlock, writer >>

\* __add_order: INSERT INTO order; order.id = result.last_inserted_ids()[0]
UAoInsert(t) ==
    /\ pc[t].at = "ao_insert"
    /\ LET id == last_inserted_id(tbl_order)
       IN  /\ tbl_order' = Put(tbl_order, id, OrderFields(mem[pc[t].oi]))
           /\ mem' = [mem EXCEPT ![pc[t].oi].id = id]
           /\ pc' = [pc EXCEPT ![t].at = "host_next", ![t].hi = 1,
                               ![t].undo = Append(@, Inserted("o", id))]
    /\ UNCHANGED << tbl_host, tbl_variable, clock, calls, ret, rlock, writer >>

\* for host in order.get_hosts(): self.__save_host(order.get_id(), host); at
\* the end of the loop __save_order returns (after the fallback: __add_order
\* returns, add_order commits its nested transaction, __save_order returns)
UHostNext(t) ==
    /\ pc[t].at = "host_next"
    /\ IF pc[t].hi > Len(mem[pc[t].oi].hosts)
       THEN /\ rlock' = Released(IF pc[t].path = "add" THEN 2 ELSE 1)
            /\ pc' = [pc EXCEPT ![t].at = "commit"]
       ELSE /\ pc' = [pc EXCEPT ![t].at = "h_lock", ![t].order_id = mem[pc[t].oi].id]
            /\ UNCHANGED rlock
    /\ UNCHANGED << tbl_order, tbl_host, tbl_variable, mem, clock, calls, ret, writer >>

\* __add_host / __save_host: if not host.is_dirty(): return
UHostDirty(t) ==
    /\ pc[t].at = "h_dirty"
    /\ IF SkipHost(mem[pc[t].oi].hosts[pc[t].hi])
       THEN /\ rlock' = Released(1)
            /\ pc' = [pc EXCEPT ![t].at = "host_next", ![t].hi = @ + 1]
       ELSE /\ pc' = [pc EXCEPT ![t].at =
                         IF pc[t].path = "add" THEN "h_insert" ELSE "h_select"]
            /\ UNCHANGED rlock
    /\ UNCHANGED << tbl_order, tbl_host, tbl_variable, mem, clock, calls, ret, writer >>

\* __save_host: thehost = table.select(where).execute().fetchone()
UHostSelect(t) ==
    /\ pc[t].at = "h_select"
    /\ pc' = [pc EXCEPT ![t].at = "h_write",
                        ![t].thehost = FirstOf(HostKeyRows(View(t).h, pc[t].order_id,
                                          mem[pc[t].oi].hosts[pc[t].hi].address))]
    /\ UNCHANGED << tbl_order, tbl_host, tbl_variable, mem, clock, calls, ret, rlock, writer >>

\* __add_host: the INSERT; __save_host: the INSERT (thehost is None) or the
\* UPDATE ... WHERE order_id = ... AND address = ...
UHostWrite(t) ==
    /\ pc[t].at \in {"h_insert", "h_write"}
    /\ LET host == mem[pc[t].oi].hosts[pc[t].hi]
           fields == [order_id |-> pc[t].order_id, name |-> host.name,
                      address |-> host.address]
           insert == pc[t].at = "h_insert" \/ pc[t].thehost = Null
           id == last_inserted_id(tbl_host)
           hit == HostKeyRows(tbl_host, pc[t].order_id, host.address)
           hitseq == AscSeq(hit)
       IN  /\ tbl_host' = IF insert THEN Put(tbl_host, id, fields)
                          ELSE [i \in DOMAIN tbl_host |->
                                  IF i \in hit THEN fields ELSE tbl_host[i]]
           /\ pc' = [pc EXCEPT ![t].at = "var_next", ![t].vi = 1,
                        ![t].host_id = IF insert THEN id ELSE pc[t].thehost,
                        ![t].undo = IF insert THEN Append(@, Inserted("h", id))
                                    ELSE @ \o [k \in 1..Len(hitseq) |->
                                                 Updated("h", hitseq[k], tbl_host[hitseq[k]])]]
           /\ ret' = [ret EXCEPT !.updated = @ \/ ~insert]
    /\ UNCHANGED << tbl_order, tbl_variable, mem, clock, calls, rlock, writer >>

\* for key, value in host.get_all().iteritems(): ...; at the end of the loop
\* host.untouch() and the helper returns
UVarNext(t) ==
    /\ pc[t].at = "var_next"
    /\ IF pc[t].vi > Len(VarOrder)
       THEN /\ mem' = [mem EXCEPT ![pc[t].oi].hosts[pc[t].hi].dirty = FALSE]
            /\ rlock' = Released(1)
            /\ pc' = [pc EXCEPT ![t].at = "host_next", ![t].hi = @ + 1]
       ELSE /\ pc' = IF VarOrder[pc[t].vi] \in DOMAIN mem[pc[t].oi].hosts[pc[t].hi].vars
                     THEN [pc EXCEPT ![t].at = "v_lock"]
                     ELSE [pc EXCEPT ![t].vi = @ + 1]
            /\ UNCHANGED << mem, rlock >>
    /\ UNCHANGED << tbl_order, tbl_host, tbl_variable, clock, calls, ret, writer >>

\* __save_variable: thevar = table.select(where).execute().fetchone()
UVarSelect(t) ==
    /\ pc[t].at = "v_select"
    /\ pc' = [pc EXCEPT ![t].at = "v_write",
                        ![t].thevar = FirstOf({i \in DOMAIN View(t).v :
                              /\ View(t).v[i].host_id = pc[t].host_id
                              /\ View(t).v[i].name = VarOrder[pc[t].vi]})]
    /\ UNCHANGED << tbl_order, tbl_host, tbl_variable, mem, clock, calls, ret, rlock, writer >>

\* __add_variable: the INSERT; __save_variable: the INSERT or the UPDATE;
\* the helper returns
UVarWrite(t) ==
    /\ pc[t].at \in {"v_insert", "v_write"}
    /\ LET key == VarOrder[pc[t].vi]
           fields == [host_id |-> pc[t].host_id, name |-> key,
                      value |-> mem[pc[t].oi].hosts[pc[t].hi].vars[key]]
           insert == pc[t].at = "v_insert" \/ pc[t].thevar = Null
           id == last_inserted_id(tbl_variable)
           hit == {i \in DOMAIN tbl_variable :
                      tbl_variable[i].host_id = pc[t].host_id /\ tbl_variable[i].name = key}
           hitseq == AscSeq(hit)
       IN  /\ tbl_variable' = IF insert THEN Put(tbl_variable, id, fields)
                              ELSE [i \in DOMAIN tbl_variable |->
                                      IF i \in hit THEN fields ELSE tbl_variable[i]]
           /\ pc' = [pc EXCEPT ![t].at = "var_next", ![t].vi = @ + 1,
                        ![t].undo = IF insert THEN Append(@, Inserted("v", id))
                                    ELSE @ \o [k \in 1..Len(hitseq) |->
                                                 Updated("v", hitseq[k], tbl_variable[hitseq[k]])]]
    /\ rlock' = Released(1)
    /\ UNCHANGED << tbl_order, tbl_host, mem, clock, calls, ret, writer >>

\* save_order: transaction.commit(); the call returns
UCommit(t) ==
    /\ pc[t].at = "commit"
    /\ pc' = [pc EXCEPT ![t] = IdleSave]
    /\ UNCHANGED << tbl_order, tbl_host, tbl_variable, mem, clock, calls, ret, rlock, writer >>

\* the caller marks a host dirty again: host.touch()
UTouch ==
    /\ \E oi \in Objs : \E hi \in 1..Len(mem[oi].hosts) :
         /\ ~mem[oi].hosts[hi].dirty
         /\ mem' = [mem EXCEPT ![oi].hosts[hi].dirty = TRUE]
    /\ UNCHANGED << tbl_order, tbl_host, tbl_variable, clock, calls, ret, pc, rlock, writer >>

\* the caller gives an order a second host, with another address
UAddHost ==
    /\ \E oi \in Objs :
         /\ Len(mem[oi].hosts) = 1
         /\ mem' = [mem EXCEPT ![oi].hosts = Append(@, NewHost("a2", "n2", NoVars))]
    /\ UNCHANGED << tbl_order, tbl_host, tbl_variable, clock, calls, ret, pc, rlock, writer >>

\* empty storage, the orders the callers have built, and the engine
InitSave(orders) ==
    /\ tbl_order = EmptyTable
    /\ tbl_host = EmptyTable
    /\ tbl_variable = EmptyTable
    /\ mem = orders
    /\ clock = 1
    /\ calls = 0
    /\ \E isolation \in Isolations :
         ret = [op |-> "upsert", updated |-> FALSE, raised |-> FALSE,
                isolation |-> isolation]
    /\ pc = [t \in Threads |-> IdleSave]
    /\ rlock = [owner |-> 0, depth |-> 0]
    /\ writer = {}

InitUpsert ==
    InitSave(<< NewOrder("s1", << NewHost("a1", "n1", OneVar), NewHost("a2", "n2", NoVars) >>),
                NewOrder("s2", << NewHost("a1", "n1", OneVar) >>) >>)

\* the steps of a call that is under way
UStep(t) ==
    \/ UAcquire(t)
    \/ ULookup(t)
    \/ USoUpdate(t)
    \/ UAoInsert(t)
    \/ UHostNext(t)
    \/ UHostDirty(t)
    \/ UHostSelect(t)
    \/ UHostWrite(t)
    \/ UVarNext(t)
    \/ UVarSelect(t)
    \/ UVarWrite(t)
    \/ UCommit(t)

NextUpsert ==
    \/ \E t \in Threads : UCallSave(t) \/ UStep(t)
    \/ UTouch
    \/ UAddHost

SpecUpsert == InitUpsert /\ [][NextUpsert]_vars

(***************************************************************************)
(* Properties of the natural-key upsert                                    *)
(***************************************************************************)
NaturalKeysUnique ==
    /\ \A i, j \in DOMAIN tbl_host :
          (tbl_host[i].order_id = tbl_host[j].order_id
             /\ tbl_host[i].address = tbl_host[j].address) => i = j
    /\ \A i, j \in DOMAIN tbl_variable :
          (tbl_variable[i].host_id = tbl_variable[j].host_id
             /\ tbl_variable[i].name = tbl_variable[j].name) => i = j

\* the hosts of every order the callers hold have pairwise distinct addresses
DistinctAddresses ==
    \A oi \in Objs : \A i, j \in 1..Len(mem[oi].hosts) :
        mem[oi].hosts[i].address = mem[oi].hosts[j].address => i = j

\* C19: storage holds at most one host row per (order_id, address) and at
\* most one variable row per (host_id, name), whatever the interleaving of
\* the threads' save_order calls on orders whose hosts have pairwise
\* distinct addresses.
C19_NaturalKeysUnique == DistinctAddresses => NaturalKeysUnique

\* the same, on an engine where a statement's effect is seen by every thread
\* at once
C19_UniqueWhenVisible ==
    (ret.isolation = "read uncommitted" /\ DistinctAddresses) => NaturalKeysUnique

\* a save_order found a dirty host's (order_id, address) stored and updated
\* that row, while the other thread was inside a save_order call of its own
C19_WitnessUpdate ==
    /\ ret.updated
    /\ ret.isolation = "read uncommitted"
    /\ \E t, u \in Threads :
          /\ t # u
          /\ pc[t].at = "var_next" /\ pc[t].path = "save" /\ pc[t].thehost # Null
          /\ pc[u].at \in {"so_lock", "h_lock", "v_lock"}

(***************************************************************************)
(* SpecLock: the same threads, where in addition a statement can raise and *)
(* a thread can call clear_database().  SpecLockFair adds that a thread    *)
(* whose next step is possible is eventually scheduled.                    *)
(***************************************************************************)
MaxLockCalls == 2        \* calls per behaviour

\* the positions inside a with rlock block
InsideLock == {"so_lookup", "so_update", "ao_lock", "ao_insert", "host_next",
               "h_lock", "h_dirty", "h_select", "h_write", "h_insert",
               "var_next", "v_lock", "v_select", "v_write", "v_insert", "cd_delete"}

\* a statement raises: every with block of the thread is left, which releases
\* the lock as often as the thread had acquired it.  In the fallback the
\* exception first passes add_order's handler, which rolls back while
\* __save_order still holds the lock; otherwise save_order's handler rolls
\* back after the lock was released.
UFail(t) ==
    /\ pc[t].at \in StatementAt
    /\ pc[t].at = "so_lookup" => mem[pc[t].oi].id # Null
    /\ LET db == [o |-> tbl_order, h |-> tbl_host, v |-> tbl_variable]
           inner == pc[t].path = "add"
           db1 == IF inner THEN UndoAll(db, pc[t].undo) ELSE db
       IN  /\ tbl_order' = db1.o
           /\ tbl_host' = db1.h
           /\ tbl_variable' = db1.v
           /\ pc' = [pc EXCEPT ![t].at = "rollback",
                               ![t].undo = IF inner THEN << >> ELSE @]
    /\ rlock' = IF rlock.owner = t THEN [owner |-> 0, depth |-> 0] ELSE rlock
    /\ ret' = [ret EXCEPT !.raised = TRUE]
    /\ UNCHANGED << mem, clock, calls, writer >>

\* save_order: except: transaction.rollback(); raise
URollback(t) ==
    /\ pc[t].at = "rollback"
    /\ LET db1 == UndoAll([o |-> tbl_order, h |-> tbl_host, v |-> tbl_variable], pc[t].undo)
       IN  /\ tbl_order' = db1.o
           /\ tbl_host' = db1.h
           /\ tbl_variable' = db1.v
    /\ pc' = [pc EXCEPT ![t] = IdleSave]
    /\ UNCHANGED << mem, clock, calls, ret, rlock, writer >>

ULockCallSave(t) == UCallSaveCall(t, MaxLockCalls)

\* a thread calls clear_database()
UCallClear(t) ==
    /\ pc[t].at = "idle"
    /\ calls < MaxLockCalls
    /\ pc' = [pc EXCEPT ![t].at = "cd_lock"]
    /\ calls' = calls + 1
    /\ UNCHANGED << tbl_order, tbl_host, tbl_variable, mem, clock, ret, rlock, writer >>

\* clear_database: the DELETE, and the call returns
UClearDelete(t) ==
    /\ pc[t].at = "cd_delete"
    /\ LET db1 == clear_database([o |-> tbl_order, h |-> tbl_host, v |-> tbl_variable])
       IN  /\ tbl_order' = db1.o
           /\ tbl_host' = db1.h
           /\ tbl_variable' = db1.v
    /\ rlock' = Released(1)
    /\ pc' = [pc EXCEPT ![t] = IdleSave]
    /\ UNCHANGED << mem, clock, calls, ret, writer >>

\* the steps of a call that is under way
ULockStep(t) == UStep(t) \/ URollback(t) \/ UClearDelete(t)

NextLock ==
    \/ \E t \in Threads : ULockCallSave(t) \/ UCallClear(t) \/ ULockStep(t) \/ UFail(t)
    \/ UTouch

InitLock ==
    InitSave(<< NewOrder("s1", << NewHost("a1", "n1", OneVar) >>),
                NewOrder("s2", << >>) >>)

SpecLock == InitLock /\ [][NextLock]_vars

SpecLockFair == SpecLock /\ \A t \in Threads : WF_vars(ULockStep(t))

(***************************************************************************)
(* Properties of the lock on the write path                                *)
(***************************************************************************)
\* exactly the thread that is inside a with block owns the lock
OwnerInside == \A t \in Threads : (pc[t].at \in InsideLock) <=> (rlock.owner = t)

\* C17: the thread inside a guarded method owns the lock, also in the nested
\* guarded methods, and no other thread does; and every call that was started
\* returns or raises.
C17_EveryCallReturns ==
    /\ []OwnerInside
    /\ \A t \in Threads : (pc[t].at # "idle") ~> (pc[t].at = "idle")

\* a thread holds the lock four times over (__save_order, the fallback
\* __add_order, __add_host, __add_variable); it could take the lock because
\* the other thread's call, which is raising, has released it
C17_Witness ==
    /\ ret.raised
    /\ \E t, u \in Threads :
          /\ pc[t].at = "v_insert" /\ rlock.owner = t /\ rlock.depth = 4
          /\ pc[u].at = "rollback"

\* a thread holds the lock four times over while the other waits for it
C17_WitnessWaiting ==
    \E t, u \in Threads :
        /\ pc[t].at = "v_insert" /\ rlock.owner = t /\ rlock.depth = 4
        /\ pc[u].at = "so_lock"

(***************************************************************************)
(* Properties of save_order against its docstring                          *)
(***************************************************************************)
\* C21: save_order(order) of an order that is not in the database (it has no
\* id, or its id is not stored) does nothing: the three tables are as they
\* were before the call.
C21_SaveOrderNothingIfMissing ==
    [][(IsCall("save_order") /\ ret'.exc = "none" /\ Len(ret'.args) = 1) =>
         LET o == mem[ret'.args[1]]
         IN  (o.id = Null \/ o.id \notin DOMAIN tbl_order) => StorageUnchanged]_vars

=============================================================================
